---- MODULE Spec2Model ----
(***************************************************************************)
(* Agent orchestration core of ai-notes: the tool sandbox                  *)
(* (BaseChatExecutor._execute_tool), the stream reassembler and the turn   *)
(* loop (_stream_turn), the fallback call detector                         *)
(* (_try_parse_text_tool_call) and the dispatcher (AgentDispatcher).       *)
(*                                                                         *)
(* Text is modelled as a sequence of lexemes (strings): a lexeme is an     *)
(* atomic piece of the Python string, concatenation is \o, len() is Len.   *)
(***************************************************************************)
EXTENDS Integers, Sequences, FiniteSets, TLC

VARIABLES
    \* ---- one call of BaseChatExecutor._execute_tool (SpecTool) ----
    et_pc,        \* "idle" | "done"
    et_call,      \* the arguments of the call and the behaviour of the implementation
    et_result,    \* what _execute_tool did: a returned text or a raised exception
    \* ---- reassembly of one logical tool call from its fragments (SpecReasm) ----
    rs_pc,        \* "idle" | "streaming"
    rs_call,      \* the logical call: index, id, name, arguments
    rs_frags,     \* the fragments of the split not yet delivered
    rs_acc,       \* tool_calls_by_id after the fragments delivered so far
    \* ---- one call of _try_parse_text_tool_call (SpecParse) ----
    fp_pc,        \* "build" | "done"
    fp_content,   \* the text handed to the detector
    fp_pieces,    \* how many pieces the text was composed of
    fp_result,    \* the detector's result
    \* ---- one run of _stream_turn on a ChatExecutor (SpecTurn) ----
    pc,                   \* position in _stream_turn
    max_iterations,
    iteration,
    full_content,
    tool_calls_saved,
    tool_calls_by_id,
    turn_content,
    tc_pos,               \* position of the for loop of line 119 in tool_calls_by_id
    executed_any,
    assistant_tool_calls,
    tool_results,
    messages,
    events,               \* what the generator has yielded
    \* observations
    requests,             \* calls of chat_completion_stream
    chunks_left,          \* stream chunks the model may still send in this run
    first_seen,           \* stream keys of the round in the order of their first fragment
    exec_log,             \* calls of _execute_tool: started, and returned with what
    exit_reason,          \* how the while loop was left: "cap" | "break"
    \* ---- calls of AgentDispatcher.process (SpecDisp) ----
    dp_pc,                \* "idle" | "notes" | "task" | "event" (awaiting it) | "returned" | "raised"
    dp_intent,
    dp_note_id,
    dp_invocations,       \* execute_turn calls made so far: which executor, for which call
    dp_result,            \* what process returned or raised
    dp_calls,             \* calls of process so far
    \* ---- the pending action store: redis behind PendingActionsStore ----
    redis_db,             \* key -> [present, value, expire_at]
    now,                  \* the clock of the redis server, in seconds
    \* ---- single calls on the store (SpecStore) ----
    ps_get,               \* the get just made, if the last call was a get: key and result
    ps_last,              \* per key, the last set or delete: when, with which ttl and action
    \* ---- requests on the agent entry points (SpecBridge) ----
    rq,                   \* per request slot: the request and the position of its handler
    started,              \* requests received so far
    uuid_next,            \* uuid4 calls so far, plus one
    dispatch_log,         \* calls of AgentDispatcher.process: by which request, for which record
    record_of,            \* per key, the serial number of the record last set
    records,           \* records set so far
    client_sessions,      \* session ids the client has read in clarification_request events
    \* ---- NotesExecutor.execute_turn and what its tools write (SpecPersist) ----
    nx_pc,                \* "idle", "llm", "tools", "saving", "done", "cancelled", "failed"
    nx_calls,             \* the tool calls of the response still to execute
    nx_runs,              \* runs started so far
    nx_before,            \* what was externally visible when the run started
    db_pending,           \* rows flushed in the open transaction of the session
    db_rows,              \* committed note rows
    ws_files,             \* workspace/{user}/{note}.md: per note id, the file
    search_docs,          \* search index: per note id, the indexed content
    \* ---- IntentClassifier.classify_intent (SpecClassify) ----
    cl_pc,                \* "idle", "awaiting", "returned", "raised"
    cl_input,             \* user_input
    cl_llm,               \* what the completion server answers
    cl_result,            \* the category returned or the exception raised
    cl_calls,             \* calls so far
    \* ---- execute_turn of the Notes, Task and Event executors (SpecExec) ----
    ex_pc,                \* "idle", "llm", "loop", "tool", "saving", "returned", "raised"
    ex_kind,              \* which executor: "notes", "task", "event"
    ex_note_id,           \* the note_id argument
    ex_calls,             \* the tool calls of the response
    ex_pos,               \* position of the for loop in ex_calls
    ex_events,            \* phases emitted so far
    ex_log,               \* _execute_tool invocations and commits, in order
    ex_runs,              \* runs started so far
    \* ---- PendingActionsStore.update_context (SpecUpdate) ----
    uc_pc,                \* "idle", "read" (between its get and its set), "done"
    uc_session,           \* the session it was called for
    uc_read,              \* what its get returned
    uc_context,           \* its new_context argument
    uc_calls              \* calls so far

toolVars == <<et_pc, et_call, et_result>>
reasmVars == <<rs_pc, rs_call, rs_frags, rs_acc>>
parseVars == <<fp_pc, fp_content, fp_pieces, fp_result>>
turnVars == <<pc, max_iterations, iteration, full_content, tool_calls_saved, tool_calls_by_id,
              turn_content, tc_pos, executed_any, assistant_tool_calls, tool_results, messages,
              events, requests, chunks_left, first_seen, exec_log, exit_reason>>
dispVars == <<dp_pc, dp_intent, dp_note_id, dp_invocations, dp_result, dp_calls>>
redisVars == <<redis_db, now>>
storeVars == <<ps_get, ps_last>>
bridgeVars == <<rq, started, uuid_next, dispatch_log, record_of, records, client_sessions>>
persistVars == <<nx_pc, nx_calls, nx_runs, nx_before, db_pending, db_rows, ws_files, search_docs>>
classVars == <<cl_pc, cl_input, cl_llm, cl_result, cl_calls>>
execVars == <<ex_pc, ex_kind, ex_note_id, ex_calls, ex_pos, ex_events, ex_log, ex_runs>>
updVars == <<uc_pc, uc_session, uc_read, uc_context, uc_calls>>
vars == <<toolVars, reasmVars, parseVars, turnVars, dispVars, redisVars, storeVars, bridgeVars,
          persistVars, classVars, execVars, updVars>>

(***************************************************************************)
(* Bounds of the model.                                                    *)
(***************************************************************************)
MaxCap == 6
MaxResultLen == 8
MaxFrags == 3
MaxPieces == 3
MaxIter == 2
MaxChunks == 3
MaxProcessCalls == 2
MaxSlots == 2
MaxRequests == 3
MaxSequential == 2
MaxRuns == 2
MaxNotes == 2
MaxToolCalls == 2
MaxClassifyCalls == 2
MaxExecRuns == 1
MaxExecCalls == 2
MaxUpdates == 1
MaxEarly == 2
MaxLate == 1

(***************************************************************************)
(* Python string helpers on lexeme sequences.                              *)
(***************************************************************************)
WS == {" ", "\n"}

RECURSIVE LStrip(_)
LStrip(s) == IF s = <<>> THEN s
             ELSE IF Head(s) \in WS THEN LStrip(Tail(s)) ELSE s

RECURSIVE RStrip(_)
RStrip(s) == IF s = <<>> THEN s
             ELSE IF s[Len(s)] \in WS THEN RStrip(SubSeq(s, 1, Len(s) - 1)) ELSE s

\* str.strip()
Strip(s) == RStrip(LStrip(s))

Min(a, b) == IF a < b THEN a ELSE b

\* s[:n] for n >= 0
PyHead(s, n) == SubSeq(s, 1, Min(n, Len(s)))

\* s[-n:] for n >= 0: Python reads -0 as 0, so s[-0:] is the whole of s
PyTail(s, n) == IF n = 0 THEN s
                ELSE SubSeq(s, Len(s) - Min(n, Len(s)) + 1, Len(s))

(***************************************************************************)
(* json.loads / json.dumps on lexemes.  A JSON text is, between optional   *)
(* whitespace, an object "{" member* "}" (members are lexemes, whitespace  *)
(* may stand between them) or a number (digits).  Anything else raises     *)
(* JSONDecodeError.                                                        *)
(***************************************************************************)
Digits == {"7"}

\* member lexemes: key and kind of value
MemberTable ==
    [ m \in { "eq", "sq", "ids", "n:search_notes", "n:get_notes_tree", "n:bogus",
              "n:", "n:7", "a:{}", "a:{q}", "a:'{}'", "a:'x'", "a:7",
              "i:note", "i:task", "i:event", "i:unknown", "i:banana", "i:7" } |->
      CASE m = "eq"  -> [key |-> "exact_queries",    type |-> "list", text |-> <<>>, str |-> ""]
        [] m = "sq"  -> [key |-> "semantic_queries", type |-> "list", text |-> <<>>, str |-> ""]
        [] m = "ids" -> [key |-> "note_ids",         type |-> "list", text |-> <<>>, str |-> ""]
        [] m = "n:search_notes"   -> [key |-> "name", type |-> "str", text |-> <<>>, str |-> "search_notes"]
        [] m = "n:get_notes_tree" -> [key |-> "name", type |-> "str", text |-> <<>>, str |-> "get_notes_tree"]
        [] m = "n:bogus" -> [key |-> "name", type |-> "str", text |-> <<>>, str |-> "bogus"]
        [] m = "n:"      -> [key |-> "name", type |-> "str", text |-> <<>>, str |-> ""]
        [] m = "n:7"     -> [key |-> "name", type |-> "num", text |-> <<>>, str |-> ""]
        [] m = "a:{}"    -> [key |-> "arguments", type |-> "dict", text |-> <<>>, str |-> ""]
        [] m = "a:{q}"   -> [key |-> "arguments", type |-> "dict", text |-> <<"eq", "sq">>, str |-> ""]
        [] m = "a:'{}'"  -> [key |-> "arguments", type |-> "str", text |-> <<"{", "}">>, str |-> ""]
        [] m = "a:'x'"   -> [key |-> "arguments", type |-> "str", text |-> <<"x">>, str |-> ""]
        [] m = "a:7"     -> [key |-> "arguments", type |-> "num", text |-> <<>>, str |-> ""]
        [] m = "i:note"    -> [key |-> "intent", type |-> "str", text |-> <<>>, str |-> "note"]
        [] m = "i:task"    -> [key |-> "intent", type |-> "str", text |-> <<>>, str |-> "task"]
        [] m = "i:event"   -> [key |-> "intent", type |-> "str", text |-> <<>>, str |-> "event"]
        [] m = "i:unknown" -> [key |-> "intent", type |-> "str", text |-> <<>>, str |-> "unknown"]
        [] m = "i:banana"  -> [key |-> "intent", type |-> "str", text |-> <<>>, str |-> "banana"]
        [] m = "i:7"       -> [key |-> "intent", type |-> "num", text |-> <<>>, str |-> ""] ]

MemberTokens == DOMAIN MemberTable

IsMember(t) == t \in MemberTokens

\* the result of json.loads: ok = FALSE stands for JSONDecodeError
JsonError == [ok |-> FALSE, type |-> "error", items |-> <<>>]
JsonDict(items) == [ok |-> TRUE, type |-> "dict", items |-> items]
JsonNum == [ok |-> TRUE, type |-> "num", items |-> <<>>]

JsonLoads(s) ==
    LET t == Strip(s) IN
    IF t = <<>> THEN JsonError
    ELSE IF /\ Len(t) >= 2
            /\ t[1] = "{"
            /\ t[Len(t)] = "}"
            /\ \A i \in 2..(Len(t) - 1) : t[i] \in MemberTokens \cup WS
         THEN JsonDict(SelectSeq(SubSeq(t, 2, Len(t) - 1), IsMember))
    ELSE IF \A i \in 1..Len(t) : t[i] \in Digits THEN JsonNum
    ELSE JsonError

\* json.dumps of a dict whose members are the lexemes items
JsonDumps(items) == <<"{">> \o items \o <<"}">>

\* "key in obj" for a loaded dict
HasKey(obj, key) == \E i \in 1..Len(obj.items) : MemberTable[obj.items[i]].key = key

\* obj.get(key) for a loaded dict that has the key: the last member wins
DictGet(obj, key) ==
    LET hits == {i \in 1..Len(obj.items) : MemberTable[obj.items[i]].key = key}
        last == CHOOSE i \in hits : \A j \in hits : j <= i
    IN MemberTable[obj.items[last]]

(***************************************************************************)
(* Tool registry.  A ToolDefinition is its timeout and the fields its      *)
(* pydantic parameters model requires.                                     *)
(***************************************************************************)
SearchNotesTimeout == 30
DefaultTimeout == 60

SEARCH_NOTES_TOOL_DEF == [timeout_seconds |-> SearchNotesTimeout,
                          required |-> {"exact_queries", "semantic_queries"}]
GET_NOTES_TREE_TOOL_DEF == [timeout_seconds |-> DefaultTimeout, required |-> {}]
READ_NOTES_TOOL_DEF == [timeout_seconds |-> DefaultTimeout, required |-> {"note_ids"}]

\* chat_executor.TOOLS
TOOLS == [ n \in {"search_notes", "get_notes_tree", "read_notes"} |->
           CASE n = "search_notes" -> SEARCH_NOTES_TOOL_DEF
             [] n = "get_notes_tree" -> GET_NOTES_TREE_TOOL_DEF
             [] n = "read_notes" -> READ_NOTES_TOOL_DEF ]

\* ToolDefinition.validate_args: pydantic model_validate; FALSE stands for ValidationError
ValidateArgs(tool_def, args) ==
    /\ args.type = "dict"
    /\ \A k \in tool_def.required :
          HasKey(args, k) /\ DictGet(args, k).type = "list"

(***************************************************************************)
(* BaseChatExecutor._execute_tool.                                         *)
(* self = [tools, max_tool_output_chars]; impl is what awaiting            *)
(* tool_def.instance.call under asyncio.wait_for does:                      *)
(*   [kind |-> "return", is_str, value]  returns value                     *)
(*   [kind |-> "timeout"]                exceeds the timeout               *)
(*   [kind |-> "TypeError"]              raises TypeError                  *)
(*   [kind |-> "Exception"]              raises another Exception          *)
(*   [kind |-> "ClarificationNeeded"]    raises ClarificationNeeded, which *)
(*                                       is a subclass of Exception        *)
(* The result says whether the call returned a text or raised, and whether *)
(* the implementation was called.                                          *)
(***************************************************************************)
Returned(text, called) == [outcome |-> "return", text |-> text, exc |-> "", called |-> called]
Raised(exc, called) == [outcome |-> "raise", text |-> <<>>, exc |-> exc, called |-> called]

ErrNotFound(n)   == <<"Error: tool '" \o n \o "' not found">>
ErrBadJson(n)    == <<"Error: invalid JSON arguments for tool '" \o n \o "'">>
ErrValidation(n) == <<"Error: tool '" \o n \o "' validation error">>
ErrTimeout(n)    == <<"Error: tool '" \o n \o "' timed out">>
ErrArgument(n)   == <<"Error: tool '" \o n \o "' argument error">>
ErrExecuting(n)  == <<"Error executing " \o n>>

TrimMarker(len) == "\n\n... [TRIMMED " \o ToString(len) \o " chars] ...\n\n"

\* int(cap * 0.7) and int(cap * 0.2).  In IEEE double arithmetic these equal
\* (7 * cap) \div 10 and (2 * cap) \div 10 for every cap below 90 (the first cap
\* where the double product falls below the exact one is 90).
HeadLen(cap) == (7 * cap) \div 10
TailLen(cap) == (2 * cap) \div 10

\* lines 140-144
Truncate(cap, result) ==
    IF Len(result) > cap
    THEN PyHead(result, HeadLen(cap)) \o <<TrimMarker(Len(result))>> \o PyTail(result, TailLen(cap))
    ELSE result

\* _execute_tool with the "except ValidationError" and "except Exception" handlers
\* left out: the exception propagates
ExecuteToolUncaught(self, tool_name, raw_args, impl) ==
    IF tool_name \notin DOMAIN self.tools
    THEN Returned(ErrNotFound(tool_name), FALSE)
    ELSE
    LET tool_def == self.tools[tool_name]
        args_dict == IF Strip(raw_args) # <<>> THEN JsonLoads(raw_args) ELSE JsonDict(<<>>)
    IN
    IF ~args_dict.ok THEN Returned(ErrBadJson(tool_name), FALSE)
    ELSE IF ~ValidateArgs(tool_def, args_dict) THEN Raised("ValidationError", FALSE)
    ELSE IF tool_def.timeout_seconds <= 0 THEN Raised("ValueError", FALSE)
    ELSE CASE impl.kind = "timeout"   -> Returned(ErrTimeout(tool_name), TRUE)
           [] impl.kind = "TypeError" -> Returned(ErrArgument(tool_name), TRUE)
           [] impl.kind = "Exception" -> Raised("Exception", TRUE)
           [] impl.kind = "ClarificationNeeded" -> Raised("ClarificationNeeded", TRUE)
           [] impl.kind = "return" ->
                IF ~impl.is_str THEN Raised("TypeError", TRUE)
                ELSE Returned(Truncate(self.max_tool_output_chars, impl.value), TRUE)

\* _execute_tool with lines 114-115 and 138-139 turned into error texts
ExecuteToolRecovering(self, tool_name, raw_args, impl) ==
    IF tool_name \notin DOMAIN self.tools
    THEN Returned(ErrNotFound(tool_name), FALSE)
    ELSE
    LET tool_def == self.tools[tool_name]
        args_dict == IF Strip(raw_args) # <<>> THEN JsonLoads(raw_args) ELSE JsonDict(<<>>)
    IN
    IF ~args_dict.ok THEN Returned(ErrBadJson(tool_name), FALSE)
    ELSE IF ~ValidateArgs(tool_def, args_dict) THEN Returned(ErrValidation(tool_name), FALSE)
    ELSE IF tool_def.timeout_seconds <= 0 THEN Returned(ErrExecuting(tool_name), FALSE)
    ELSE CASE impl.kind = "timeout"   -> Returned(ErrTimeout(tool_name), TRUE)
           [] impl.kind = "TypeError" -> Returned(ErrArgument(tool_name), TRUE)
           [] impl.kind = "Exception" -> Returned(ErrExecuting(tool_name), TRUE)
           [] impl.kind = "ClarificationNeeded" -> Returned(ErrExecuting(tool_name), TRUE)
           [] impl.kind = "return" ->
                IF ~impl.is_str THEN Returned(ErrExecuting(tool_name), TRUE)
                ELSE Returned(Truncate(self.max_tool_output_chars, impl.value), TRUE)

ExecuteTool(self, tool_name, raw_args, impl) ==
    IF tool_name \notin DOMAIN self.tools
    THEN Returned(ErrNotFound(tool_name), FALSE)
    ELSE
    LET tool_def == self.tools[tool_name]
        args_dict == IF Strip(raw_args) # <<>> THEN JsonLoads(raw_args) ELSE JsonDict(<<>>)
    IN
    IF ~args_dict.ok THEN Returned(ErrBadJson(tool_name), FALSE)
    ELSE IF ~ValidateArgs(tool_def, args_dict) THEN Returned(ErrValidation(tool_name), FALSE)
    ELSE IF tool_def.timeout_seconds <= 0 THEN Raised("ValueError", FALSE)
    ELSE CASE impl.kind = "timeout"   -> Returned(ErrTimeout(tool_name), TRUE)
           [] impl.kind = "TypeError" -> Returned(ErrArgument(tool_name), TRUE)
           [] impl.kind = "Exception" -> Returned(ErrExecuting(tool_name), TRUE)
           [] impl.kind = "ClarificationNeeded" -> Returned(ErrExecuting(tool_name), TRUE)
           [] impl.kind = "return" ->
                IF ~impl.is_str THEN Raised("TypeError", TRUE)
                ELSE Returned(Truncate(self.max_tool_output_chars, impl.value), TRUE)

(***************************************************************************)
(* SpecTool: single calls of _execute_tool on an executor built with any   *)
(* registry and any cap.                                                   *)
(***************************************************************************)
\* a registry as BaseChatExecutor.__init__ accepts it: the chat tools and a
\* definition registered with a timeout of 0
TestRegistry == [ n \in {"search_notes", "get_notes_tree", "zero_timeout"} |->
                  CASE n = "search_notes" -> SEARCH_NOTES_TOOL_DEF
                    [] n = "get_notes_tree" -> GET_NOTES_TREE_TOOL_DEF
                    [] n = "zero_timeout" -> [timeout_seconds |-> 0, required |-> {}] ]

ToolNameInputs == {"search_notes", "get_notes_tree", "zero_timeout", "bogus"}

RawArgsInputs == { <<>>, <<" ">>, <<"{", "}">>, <<"{", "eq", "sq", "}">>, <<"{", "eq">>, <<"7">> }

\* a tool output of n characters, all different
Chars(n) == [i \in 1..n |-> "c" \o ToString(i)]

ImplInputs ==
    { [kind |-> "return", is_str |-> TRUE, value |-> Chars(n)] : n \in 0..MaxResultLen }
    \cup { [kind |-> "return", is_str |-> FALSE, value |-> <<>>] }
    \cup { [kind |-> k, is_str |-> FALSE, value |-> <<>>] :
              k \in {"timeout", "TypeError", "Exception", "ClarificationNeeded"} }

NoCall == [tool_name |-> "", raw_args |-> <<>>, impl |-> [kind |-> "none", is_str |-> FALSE, value |-> <<>>], cap |-> 0]
NoResult == [outcome |-> "none", text |-> <<>>, exc |-> "", called |-> FALSE]

CallExecuteTool ==
    /\ et_pc = "idle"
    /\ \E n \in ToolNameInputs, a \in RawArgsInputs, impl \in ImplInputs, cap \in 1..MaxCap :
          /\ et_call' = [tool_name |-> n, raw_args |-> a, impl |-> impl, cap |-> cap]
          /\ et_result' = ExecuteTool([tools |-> TestRegistry, max_tool_output_chars |-> cap],
                                      n, a, impl)
    /\ et_pc' = "done"
    /\ UNCHANGED <<reasmVars, parseVars, turnVars, dispVars, persistVars, classVars, execVars, updVars, redisVars, storeVars, bridgeVars>>

ResetExecuteTool ==
    /\ et_pc = "done"
    /\ et_pc' = "idle"
    /\ et_call' = NoCall
    /\ et_result' = NoResult
    /\ UNCHANGED <<reasmVars, parseVars, turnVars, dispVars, persistVars, classVars, execVars, updVars, redisVars, storeVars, bridgeVars>>

NextTool == CallExecuteTool \/ ResetExecuteTool

(***************************************************************************)
(* Stream reassembly: _stream_turn lines 90-102.  tool_calls_by_id is a    *)
(* dict, which keeps insertion order: a sequence of entries, each the key  *)
(* "idx_<index>" and the accumulator {id, name, arguments}.  An id is a    *)
(* lexeme sequence, so that startswith("call_") reads its first lexeme.    *)
(***************************************************************************)
IdxKey(idx) == "idx_" \o ToString(idx)

KeysOf(tcs) == {tcs[i].key : i \in 1..Len(tcs)}

PosOf(tcs, key) == CHOOSE i \in 1..Len(tcs) : tcs[i].key = key

StartsWithCall(tc_id) == tc_id # <<>> /\ tc_id[1] = "call_"

\* lines 90-102 on a mapping that iterates its newest key first
OnToolCallChunkNewestFirst(tcs, chunk) ==
    LET key == IdxKey(chunk.index)
        tc_id == chunk.id
        name == chunk.name
        args_chunk == chunk.arguments
        created == IF key \notin KeysOf(tcs)
                   THEN <<[key |-> key,
                           id |-> IF tc_id # <<>> THEN tc_id ELSE <<key>>,
                           name |-> name,
                           arguments |-> <<>>]>> \o tcs
                   ELSE tcs
        p == PosOf(created, key)
        e0 == created[p]
        e1 == [e0 EXCEPT !.arguments = @ \o args_chunk]
        e2 == IF name # "" THEN [e1 EXCEPT !.name = name] ELSE e1
        e3 == IF StartsWithCall(tc_id) THEN [e2 EXCEPT !.id = tc_id] ELSE e2
    IN [created EXCEPT ![p] = e3]

OnToolCallChunk(tcs, chunk) ==
    LET key == IdxKey(chunk.index)
        tc_id == chunk.id
        name == chunk.name
        args_chunk == chunk.arguments
        created == IF key \notin KeysOf(tcs)
                   THEN Append(tcs, [key |-> key,
                                     id |-> IF tc_id # <<>> THEN tc_id ELSE <<key>>,
                                     name |-> name,
                                     arguments |-> <<>>])
                   ELSE tcs
        p == PosOf(created, key)
        e0 == created[p]
        e1 == [e0 EXCEPT !.arguments = @ \o args_chunk]
        e2 == IF name # "" THEN [e1 EXCEPT !.name = name] ELSE e1
        e3 == IF StartsWithCall(tc_id) THEN [e2 EXCEPT !.id = tc_id] ELSE e2
    IN [created EXCEPT ![p] = e3]

(***************************************************************************)
(* SpecReasm: one logical call (index, id, name, arguments) is split into  *)
(* 1..MaxFrags ordered fragments of the same stream index and delivered.   *)
(***************************************************************************)
IdInputs == { <<>>, <<"call_", "a">>, <<"tc", "9">> }
NameInputs == {"", "search_notes", "bogus"}
ArgInputs == { <<>>, <<"{", "}">>, <<"{", "eq", "sq", "}">> }

\* the ways of cutting args into n consecutive pieces: n - 1 ascending cut points
Cuts(args, n) == { c \in [1..(n - 1) -> 0..Len(args)] :
                     \A i \in 1..(n - 2) : c[i] <= c[i + 1] }

Piece(args, n, c, k) ==
    LET from == IF k = 1 THEN 0 ELSE c[k - 1]
        to == IF k = n THEN Len(args) ELSE c[k]
    IN SubSeq(args, from + 1, to)

\* the fragments of a split: fragment i carries the id, fragment j the name
Fragments(call, n, c, i, j) ==
    [ k \in 1..n |-> [index |-> call.index,
                      id |-> IF k = i THEN call.id ELSE <<>>,
                      name |-> IF k = j THEN call.name ELSE "",
                      arguments |-> Piece(call.arguments, n, c, k)] ]

NoLogicalCall == [index |-> 0, id |-> <<>>, name |-> "", arguments |-> <<>>]

StartSplit ==
    /\ rs_pc = "idle"
    /\ \E idx \in {0, 1}, id \in IdInputs, name \in NameInputs, args \in ArgInputs,
          n \in 1..MaxFrags :
          LET call == [index |-> idx, id |-> id, name |-> name, arguments |-> args] IN
          \E c \in Cuts(args, n), i \in 1..n, j \in 1..n :
             /\ rs_call' = call
             /\ rs_frags' = Fragments(call, n, c, i, j)
    /\ rs_acc' = <<>>
    /\ rs_pc' = "streaming"
    /\ UNCHANGED <<toolVars, parseVars, turnVars, dispVars, persistVars, classVars, execVars, updVars, redisVars, storeVars, bridgeVars>>

DeliverFragment ==
    /\ rs_pc = "streaming"
    /\ rs_frags # <<>>
    /\ rs_acc' = OnToolCallChunk(rs_acc, Head(rs_frags))
    /\ rs_frags' = Tail(rs_frags)
    /\ UNCHANGED <<rs_pc, rs_call>>
    /\ UNCHANGED <<toolVars, parseVars, turnVars, dispVars, persistVars, classVars, execVars, updVars, redisVars, storeVars, bridgeVars>>

NextReasm == StartSplit \/ DeliverFragment

(***************************************************************************)
(* Fallback call detector: BaseChatExecutor._try_parse_text_tool_call.     *)
(***************************************************************************)
\* str.find(t, start): the first position >= start holding lexeme t, 0 for -1
Find(s, t, start) ==
    LET hits == {i \in start..Len(s) : s[i] = t}
    IN IF hits = {} THEN 0 ELSE CHOOSE i \in hits : \A j \in hits : i <= j

Contains(s, t) == \E i \in 1..Len(s) : s[i] = t

\* str.split("\n"): the lines of s
RECURSIVE SplitLines(_)
SplitLines(s) ==
    LET nl == Find(s, "\n", 1) IN
    IF nl = 0 THEN <<s>>
    ELSE <<SubSeq(s, 1, nl - 1)>> \o SplitLines(SubSeq(s, nl + 1, Len(s)))

\* "\n".join(lines)
RECURSIVE JoinLines(_)
JoinLines(lines) ==
    IF lines = <<>> THEN <<>>
    ELSE IF Len(lines) = 1 THEN lines[1]
    ELSE lines[1] \o <<"\n">> \o JoinLines(Tail(lines))

\* line 55
Tags == <<"tool_call", "function-call", "tool_response">>
OpenTag(tag) == "<" \o tag \o ">"
CloseTag(tag) == "</" \o tag \o ">"

\* lines 55-63: the first tag of the list whose open and close tag both occur
\* decides (break); the text between them is taken if the close tag follows
UnwrapTags(stripped) ==
    LET present == {k \in 1..Len(Tags) :
                      Contains(stripped, OpenTag(Tags[k])) /\ Contains(stripped, CloseTag(Tags[k]))}
    IN IF present = {} THEN stripped
       ELSE LET k == CHOOSE x \in present : \A y \in present : x <= y
                start == Find(stripped, OpenTag(Tags[k]), 1) + 1
                end == Find(stripped, CloseTag(Tags[k]), start)
            IN IF end # 0 THEN Strip(SubSeq(stripped, start, end - 1)) ELSE stripped

\* the lexeme of a code fence (three backquotes)
Fence == "<fence>"

\* lines 64-68
UnwrapFence(stripped) ==
    IF stripped # <<>> /\ Head(stripped) = Fence
    THEN LET lines == SplitLines(stripped)
             end == IF Strip(lines[Len(lines)]) = <<Fence>> THEN Len(lines) - 1 ELSE Len(lines)
         IN JoinLines(SubSeq(lines, 2, end))
    ELSE stripped

NoneCall == [found |-> FALSE, name |-> "", arguments |-> <<>>, call_id |-> <<>>]
FoundCall(name, raw_args) ==
    [found |-> TRUE, name |-> name, arguments |-> raw_args, call_id |-> <<"fallback_", name>>]

\* lines 82-88 with the string branch lost: a string is replaced by "{}"
RawArgsOfDropsString(obj) ==
    IF ~HasKey(obj, "arguments") THEN <<"{", "}">>
    ELSE LET arguments == DictGet(obj, "arguments") IN
         IF arguments.type = "dict" THEN JsonDumps(arguments.text)
         ELSE <<"{", "}">>

\* lines 82-88
RawArgsOf(obj) ==
    IF ~HasKey(obj, "arguments") THEN <<"{", "}">>
    ELSE LET arguments == DictGet(obj, "arguments") IN
         IF arguments.type = "dict" THEN JsonDumps(arguments.text)
         ELSE IF arguments.type = "str" THEN arguments.text
         ELSE <<"{", "}">>

TryParseTextToolCall(tools, content) ==
    IF content = <<>> \/ Strip(content) = <<>> THEN NoneCall
    ELSE
    LET stripped == UnwrapFence(UnwrapTags(Strip(content))) IN
    IF ~(stripped # <<>> /\ Head(stripped) = "{" /\ stripped[Len(stripped)] = "}") THEN NoneCall
    ELSE
    LET obj == JsonLoads(stripped) IN
    IF ~obj.ok THEN NoneCall
    ELSE IF obj.type # "dict" \/ ~HasKey(obj, "name") THEN NoneCall
    ELSE
    LET name == DictGet(obj, "name") IN
    IF name.type # "str" \/ name.str = "" THEN NoneCall
    ELSE IF name.str \notin DOMAIN tools THEN NoneCall
    ELSE FoundCall(name.str, RawArgsOf(obj))

(***************************************************************************)
(* SpecParse: single calls of _try_parse_text_tool_call on texts composed  *)
(* of up to MaxPieces pieces.                                              *)
(***************************************************************************)
Obj(members) == <<"{">> \o members \o <<"}">>

TextPieces ==
    { <<" ">>, <<"x">>,
      <<"<tool_call>">>, <<"</tool_call>">>, <<"<tool_response>">>, <<"</tool_response>">>,
      Obj(<<>>),
      Obj(<<"n:get_notes_tree">>),
      Obj(<<"n:search_notes", "a:{q}">>),
      Obj(<<"n:search_notes", "a:'{}'">>),
      Obj(<<"n:get_notes_tree", "a:'x'">>),
      Obj(<<"n:get_notes_tree", "a:7">>),
      Obj(<<"n:bogus", "a:{}">>),
      Obj(<<"n:7">>),
      Obj(<<"n:">>),
      <<"{", "n:get_notes_tree">>,
      <<"7">>,
      <<Fence, "json", "\n">> \o Obj(<<"n:search_notes", "a:{q}">>) \o <<"\n", Fence>>,
      <<Fence, "\n">> \o Obj(<<"n:get_notes_tree">>) }

AppendPiece ==
    /\ fp_pc = "build"
    /\ fp_pieces < MaxPieces
    /\ \E piece \in TextPieces : fp_content' = fp_content \o piece
    /\ fp_pieces' = fp_pieces + 1
    /\ UNCHANGED <<fp_pc, fp_result>>
    /\ UNCHANGED <<toolVars, reasmVars, turnVars, dispVars, persistVars, classVars, execVars, updVars, redisVars, storeVars, bridgeVars>>

CallTryParse ==
    /\ fp_pc = "build"
    /\ fp_result' = TryParseTextToolCall(TOOLS, fp_content)
    /\ fp_pc' = "done"
    /\ UNCHANGED <<fp_content, fp_pieces>>
    /\ UNCHANGED <<toolVars, reasmVars, turnVars, dispVars, persistVars, classVars, execVars, updVars, redisVars, storeVars, bridgeVars>>

NextParse == AppendPiece \/ CallTryParse

(***************************************************************************)
(* The turn loop: chat_executor._stream_turn on a ChatExecutor.  Every     *)
(* await and every yield of the generator ends a step.                     *)
(*   pc: "idle" not called; "loop" at the while test; "stream" in the      *)
(*   async for; "exec" in the for loop of line 119; "await" in             *)
(*   _execute_tool; "final" before the last yield; "done" exhausted;       *)
(*   "raised" left by an exception.                                        *)
(***************************************************************************)
\* ChatExecutor.__init__: max_tool_output_chars
MaxToolOutputChars == 8000

ChatExecutor == [tools |-> TOOLS, max_tool_output_chars |-> MaxToolOutputChars]

NoneSaved == [is_none |-> TRUE, calls |-> <<>>]
Saved(calls) == [is_none |-> FALSE, calls |-> calls]

Event(type, text, id, name, saved) ==
    [type |-> type, text |-> text, id |-> id, name |-> name, saved |-> saved]

Message(role, content, calls, tool_call_id) ==
    [role |-> role, content |-> content, tool_calls |-> calls, tool_call_id |-> tool_call_id]

\* the message list the caller hands over: the system prompt and the user's message
InitialMessages == << Message("system", <<"prompt">>, <<>>, <<>>),
                      Message("user", <<"question">>, <<>>, <<>>) >>

\* what the model may stream: text deltas and tool-call fragments
DeltaInputs == { <<"t">>, <<"{", "n:get_notes_tree", "}">> }

ToolChunkInputs ==
    { [index |-> 0, id |-> <<"call_", "a">>, name |-> "get_notes_tree", arguments |-> <<>>],
      [index |-> 1, id |-> <<>>,             name |-> "search_notes",   arguments |-> <<"{", "eq", "sq", "}">>],
      [index |-> 1, id |-> <<>>,             name |-> "",               arguments |-> <<"7">>],
      [index |-> 1, id |-> <<"tc", "9">>,    name |-> "search_notes",   arguments |-> <<"7">>],
      [index |-> 0, id |-> <<"call_", "b">>, name |-> "bogus",          arguments |-> <<>>] }

\* what a chat tool implementation may do when awaited
ChatImplInputs ==
    { [kind |-> "return", is_str |-> TRUE, value |-> <<"r">>],
      [kind |-> "return", is_str |-> FALSE, value |-> <<>>] }
    \cup { [kind |-> k, is_str |-> FALSE, value |-> <<>>] : k \in {"timeout", "TypeError", "Exception"} }

\* the while test of line 62 with "<=" in place of "<"
LoopContinuesInclusive(it, max) == it <= max

\* line 62
LoopContinues(it, max) == it < max

\* line 122: tc.get("arguments", "") or "{}"
ArgsStr(tc) == IF tc.arguments = <<>> THEN <<"{", "}">> ELSE tc.arguments

\* line 127
LoadArgs(args_str) == IF Strip(args_str) # <<>> THEN JsonLoads(args_str) ELSE JsonDict(<<>>)

\* lines 123-130: the call is neither skipped for its name nor for its arguments
Executable(tc) == tc.name \in DOMAIN TOOLS /\ LoadArgs(ArgsStr(tc)).ok

\* line 177
SavedIntents(tcs) == [i \in 1..Len(tcs) |-> [name |-> tcs[i].name, arguments |-> tcs[i].arguments]]

Range(seq) == {seq[i] : i \in 1..Len(seq)}

\* lines 58-60, with the arguments of the call
StartTurn ==
    /\ pc = "idle"
    /\ \E n \in 0..MaxIter : max_iterations' = n
    /\ full_content' = <<>>
    /\ tool_calls_saved' = NoneSaved
    /\ iteration' = 0
    /\ messages' = InitialMessages
    /\ pc' = "loop"
    /\ UNCHANGED <<tool_calls_by_id, turn_content, tc_pos, executed_any, assistant_tool_calls,
                   tool_results, events, requests, chunks_left, first_seen, exec_log, exit_reason>>
    /\ UNCHANGED <<toolVars, reasmVars, parseVars, dispVars, persistVars, classVars, execVars, updVars, redisVars, storeVars, bridgeVars>>

\* lines 62-84: the loop continues and the model is requested
StartRequest ==
    /\ pc = "loop"
    /\ LoopContinues(iteration, max_iterations)
    /\ iteration' = iteration + 1
    /\ tool_calls_by_id' = <<>>
    /\ turn_content' = <<>>
    /\ requests' = requests + 1
    /\ first_seen' = <<>>
    /\ pc' = "stream"
    /\ UNCHANGED <<max_iterations, full_content, tool_calls_saved, tc_pos, executed_any,
                   assistant_tool_calls, tool_results, messages, events, chunks_left, exec_log,
                   exit_reason>>
    /\ UNCHANGED <<toolVars, reasmVars, parseVars, dispVars, persistVars, classVars, execVars, updVars, redisVars, storeVars, bridgeVars>>

\* the exit at the cap, recording the last round's intents as the break of line 178 does
ExitLoopAtCapSaving ==
    /\ pc = "loop"
    /\ ~LoopContinues(iteration, max_iterations)
    /\ exit_reason' = "cap"
    /\ tool_calls_saved' = Saved(SavedIntents(tool_calls_by_id))
    /\ pc' = "final"
    /\ UNCHANGED <<max_iterations, iteration, full_content, tool_calls_by_id,
                   turn_content, tc_pos, executed_any, assistant_tool_calls, tool_results,
                   messages, events, requests, chunks_left, first_seen, exec_log>>
    /\ UNCHANGED <<toolVars, reasmVars, parseVars, dispVars, persistVars, classVars, execVars, updVars, redisVars, storeVars, bridgeVars>>

\* line 62: the while condition fails
ExitLoopAtCap ==
    /\ pc = "loop"
    /\ ~LoopContinues(iteration, max_iterations)
    /\ exit_reason' = "cap"
    /\ pc' = "final"
    /\ UNCHANGED <<max_iterations, iteration, full_content, tool_calls_saved, tool_calls_by_id,
                   turn_content, tc_pos, executed_any, assistant_tool_calls, tool_results,
                   messages, events, requests, chunks_left, first_seen, exec_log>>
    /\ UNCHANGED <<toolVars, reasmVars, parseVars, dispVars, persistVars, classVars, execVars, updVars, redisVars, storeVars, bridgeVars>>

\* lines 85-89
RecvContentDelta ==
    /\ pc = "stream"
    /\ chunks_left > 0
    /\ \E delta \in DeltaInputs :
          /\ turn_content' = turn_content \o delta
          /\ full_content' = full_content \o delta
          /\ events' = Append(events, Event("content_delta", delta, <<>>, "", NoneSaved))
    /\ chunks_left' = chunks_left - 1
    /\ UNCHANGED <<pc, max_iterations, iteration, tool_calls_saved, tool_calls_by_id, tc_pos,
                   executed_any, assistant_tool_calls, tool_results, messages, requests,
                   first_seen, exec_log, exit_reason>>
    /\ UNCHANGED <<toolVars, reasmVars, parseVars, dispVars, persistVars, classVars, execVars, updVars, redisVars, storeVars, bridgeVars>>

\* lines 90-102
RecvToolCallChunk ==
    /\ pc = "stream"
    /\ chunks_left > 0
    /\ \E chunk \in ToolChunkInputs :
          /\ tool_calls_by_id' = OnToolCallChunk(tool_calls_by_id, chunk)
          /\ first_seen' = IF IdxKey(chunk.index) \in Range(first_seen)
                           THEN first_seen
                           ELSE Append(first_seen, IdxKey(chunk.index))
    /\ chunks_left' = chunks_left - 1
    /\ UNCHANGED <<pc, max_iterations, iteration, full_content, tool_calls_saved, turn_content,
                   tc_pos, executed_any, assistant_tool_calls, tool_results, messages, events,
                   requests, exec_log, exit_reason>>
    /\ UNCHANGED <<toolVars, reasmVars, parseVars, dispVars, persistVars, classVars, execVars, updVars, redisVars, storeVars, bridgeVars>>

\* the end of the stream with the detector's call added whenever the text holds
\* one, whether or not structured fragments arrived
EndStreamAlwaysDetecting ==
    /\ pc = "stream"
    /\ LET parsed == TryParseTextToolCall(ChatExecutor.tools, turn_content) IN
       tool_calls_by_id' =
          IF Strip(turn_content) # <<>> /\ parsed.found
          THEN Append(tool_calls_by_id,
                      [key |-> "fallback", id |-> parsed.call_id, name |-> parsed.name,
                       arguments |-> parsed.arguments])
          ELSE tool_calls_by_id
    /\ executed_any' = FALSE
    /\ assistant_tool_calls' = <<>>
    /\ tool_results' = <<>>
    /\ tc_pos' = 1
    /\ pc' = "exec"
    /\ UNCHANGED <<max_iterations, iteration, full_content, tool_calls_saved, turn_content,
                   messages, events, requests, chunks_left, first_seen, exec_log, exit_reason>>
    /\ UNCHANGED <<toolVars, reasmVars, parseVars, dispVars, persistVars, classVars, execVars, updVars, redisVars, storeVars, bridgeVars>>

\* lines 104-117: the stream is exhausted; the fallback detector; the for loop begins
EndStream ==
    /\ pc = "stream"
    /\ LET parsed == TryParseTextToolCall(ChatExecutor.tools, turn_content) IN
       tool_calls_by_id' =
          IF tool_calls_by_id = <<>> /\ Strip(turn_content) # <<>> /\ parsed.found
          THEN << [key |-> "fallback", id |-> parsed.call_id, name |-> parsed.name,
                   arguments |-> parsed.arguments] >>
          ELSE tool_calls_by_id
    /\ executed_any' = FALSE
    /\ assistant_tool_calls' = <<>>
    /\ tool_results' = <<>>
    /\ tc_pos' = 1
    /\ pc' = "exec"
    /\ UNCHANGED <<max_iterations, iteration, full_content, tool_calls_saved, turn_content,
                   messages, events, requests, chunks_left, first_seen, exec_log, exit_reason>>
    /\ UNCHANGED <<toolVars, reasmVars, parseVars, dispVars, persistVars, classVars, execVars, updVars, redisVars, storeVars, bridgeVars>>

\* the entry the for loop of line 119 is at
CurrentCall == tool_calls_by_id[tc_pos]

\* line 137: args.get on the loaded arguments of a search_notes call
ArgsGetRaises(tc) == tc.name = "search_notes" /\ LoadArgs(ArgsStr(tc)).type # "dict"

Started(round, tc) ==
    [round |-> round, key |-> tc.key, name |-> tc.name, id |-> tc.id, impl |-> "pending",
     text |-> <<>>, returned |-> FALSE]

\* lines 123-130: continue
SkipToolCall ==
    /\ pc = "exec"
    /\ tc_pos <= Len(tool_calls_by_id)
    /\ ~Executable(CurrentCall)
    /\ tc_pos' = tc_pos + 1
    /\ UNCHANGED <<pc, max_iterations, iteration, full_content, tool_calls_saved,
                   tool_calls_by_id, turn_content, executed_any, assistant_tool_calls,
                   tool_results, messages, events, requests, chunks_left, first_seen, exec_log,
                   exit_reason>>
    /\ UNCHANGED <<toolVars, reasmVars, parseVars, dispVars, persistVars, classVars, execVars, updVars, redisVars, storeVars, bridgeVars>>

\* lines 132-149: the tool_call event is yielded and _execute_tool is awaited
BeginToolCall ==
    /\ pc = "exec"
    /\ tc_pos <= Len(tool_calls_by_id)
    /\ Executable(CurrentCall)
    /\ ~ArgsGetRaises(CurrentCall)
    /\ events' = Append(events, Event("tool_call", ArgsStr(CurrentCall), CurrentCall.id,
                                      CurrentCall.name, NoneSaved))
    /\ exec_log' = Append(exec_log, Started(iteration, CurrentCall))
    /\ pc' = "await"
    /\ UNCHANGED <<max_iterations, iteration, full_content, tool_calls_saved, tool_calls_by_id,
                   turn_content, tc_pos, executed_any, assistant_tool_calls, tool_results,
                   messages, requests, chunks_left, first_seen, exit_reason>>
    /\ UNCHANGED <<toolVars, reasmVars, parseVars, dispVars, persistVars, classVars, execVars, updVars, redisVars, storeVars, bridgeVars>>

\* lines 132-138: the tool_call event is yielded, then args.get raises AttributeError
\* on arguments that are JSON but not an object; nothing in _stream_turn catches it
AbortOnArguments ==
    /\ pc = "exec"
    /\ tc_pos <= Len(tool_calls_by_id)
    /\ Executable(CurrentCall)
    /\ ArgsGetRaises(CurrentCall)
    /\ events' = Append(events, Event("tool_call", ArgsStr(CurrentCall), CurrentCall.id,
                                      CurrentCall.name, NoneSaved))
    /\ pc' = "raised"
    /\ UNCHANGED <<max_iterations, iteration, full_content, tool_calls_saved, tool_calls_by_id,
                   turn_content, tc_pos, executed_any, assistant_tool_calls, tool_results,
                   messages, requests, chunks_left, first_seen, exec_log, exit_reason>>
    /\ UNCHANGED <<toolVars, reasmVars, parseVars, dispVars, persistVars, classVars, execVars, updVars, redisVars, storeVars, bridgeVars>>

\* lines 144-169: _execute_tool returns; the tool_result event; the bookkeeping
ToolReturn ==
    /\ pc = "await"
    /\ \E impl \in ChatImplInputs :
          LET result == ExecuteTool(ChatExecutor, CurrentCall.name, ArgsStr(CurrentCall), impl)
              last == Len(exec_log)
          IN
          IF result.outcome = "raise"
          THEN /\ pc' = "raised"
               /\ exec_log' = [exec_log EXCEPT ![last] =
                                  [@ EXCEPT !.impl = "raised", !.text = <<result.exc>>]]
               /\ UNCHANGED <<events, executed_any, assistant_tool_calls,
                              tool_results, tc_pos>>
          ELSE /\ events' = Append(events, Event("tool_result", result.text, CurrentCall.id,
                                                 CurrentCall.name, NoneSaved))
               /\ exec_log' = [exec_log EXCEPT ![last] =
                                  [@ EXCEPT !.impl = IF result.called THEN impl.kind ELSE "not_called",
                                            !.text = result.text,
                                            !.returned = TRUE]]
               /\ executed_any' = TRUE
               /\ assistant_tool_calls' =
                     Append(assistant_tool_calls,
                            [id |-> CurrentCall.id, name |-> CurrentCall.name,
                             arguments |-> ArgsStr(CurrentCall)])
               /\ tool_results' = Append(tool_results,
                                         [tool_call_id |-> CurrentCall.id, content |-> result.text])
               /\ tc_pos' = tc_pos + 1
               /\ pc' = "exec"
    /\ UNCHANGED <<max_iterations, iteration, full_content, tool_calls_saved, tool_calls_by_id,
                   turn_content, messages, requests, chunks_left, first_seen, exit_reason>>
    /\ UNCHANGED <<toolVars, reasmVars, parseVars, dispVars, persistVars, classVars, execVars, updVars, redisVars, storeVars, bridgeVars>>

\* the tool messages of a round, newest first
ToolMessagesNewestFirst(results) ==
    [i \in 1..Len(results) |->
        Message("tool", results[Len(results) + 1 - i].content, <<>>,
                results[Len(results) + 1 - i].tool_call_id)]

\* lines 174-175
ToolMessages(results) ==
    [i \in 1..Len(results) |-> Message("tool", results[i].content, <<>>, results[i].tool_call_id)]

\* the results go back to the model as soon as one call of the round returned,
\* whether or not the for loop of line 119 has reached its end
FeedBackResultsEarly ==
    /\ pc = "exec"
    /\ executed_any
    /\ messages' = Append(messages, Message("assistant", turn_content, assistant_tool_calls, <<>>))
                   \o ToolMessages(tool_results)
    /\ pc' = "loop"
    /\ UNCHANGED <<max_iterations, iteration, full_content, tool_calls_saved, tool_calls_by_id,
                   turn_content, tc_pos, executed_any, assistant_tool_calls, tool_results,
                   events, requests, chunks_left, first_seen, exec_log, exit_reason>>
    /\ UNCHANGED <<toolVars, reasmVars, parseVars, dispVars, persistVars, classVars, execVars, updVars, redisVars, storeVars, bridgeVars>>

\* lines 171-175: the round executed a tool; its results go back to the model
FeedBackResults ==
    /\ pc = "exec"
    /\ tc_pos > Len(tool_calls_by_id)
    /\ executed_any
    /\ messages' = Append(messages, Message("assistant", turn_content, assistant_tool_calls, <<>>))
                   \o ToolMessages(tool_results)
    /\ pc' = "loop"
    /\ UNCHANGED <<max_iterations, iteration, full_content, tool_calls_saved, tool_calls_by_id,
                   turn_content, tc_pos, executed_any, assistant_tool_calls, tool_results,
                   events, requests, chunks_left, first_seen, exec_log, exit_reason>>
    /\ UNCHANGED <<toolVars, reasmVars, parseVars, dispVars, persistVars, classVars, execVars, updVars, redisVars, storeVars, bridgeVars>>

\* a round that executed no tool goes back to the while test instead of breaking
ContinueNoToolExecuted ==
    /\ pc = "exec"
    /\ tc_pos > Len(tool_calls_by_id)
    /\ ~executed_any
    /\ tool_calls_saved' = Saved(SavedIntents(tool_calls_by_id))
    /\ exit_reason' = "break"
    /\ pc' = "loop"
    /\ UNCHANGED <<max_iterations, iteration, full_content, tool_calls_by_id, turn_content,
                   tc_pos, executed_any, assistant_tool_calls, tool_results, messages, events,
                   requests, chunks_left, first_seen, exec_log>>
    /\ UNCHANGED <<toolVars, reasmVars, parseVars, dispVars, persistVars, classVars, execVars, updVars, redisVars, storeVars, bridgeVars>>

\* lines 176-178: the round executed no tool; break
BreakNoToolExecuted ==
    /\ pc = "exec"
    /\ tc_pos > Len(tool_calls_by_id)
    /\ ~executed_any
    /\ tool_calls_saved' = Saved(SavedIntents(tool_calls_by_id))
    /\ exit_reason' = "break"
    /\ pc' = "final"
    /\ UNCHANGED <<max_iterations, iteration, full_content, tool_calls_by_id, turn_content,
                   tc_pos, executed_any, assistant_tool_calls, tool_results, messages, events,
                   requests, chunks_left, first_seen, exec_log>>
    /\ UNCHANGED <<toolVars, reasmVars, parseVars, dispVars, persistVars, classVars, execVars, updVars, redisVars, storeVars, bridgeVars>>

\* line 180
YieldFinal ==
    /\ pc = "final"
    /\ events' = Append(events, Event("_internal_final", full_content, <<>>, "", tool_calls_saved))
    /\ pc' = "done"
    /\ UNCHANGED <<max_iterations, iteration, full_content, tool_calls_saved, tool_calls_by_id,
                   turn_content, tc_pos, executed_any, assistant_tool_calls, tool_results,
                   messages, requests, chunks_left, first_seen, exec_log, exit_reason>>
    /\ UNCHANGED <<toolVars, reasmVars, parseVars, dispVars, persistVars, classVars, execVars, updVars, redisVars, storeVars, bridgeVars>>

NextTurn ==
    \/ StartTurn
    \/ StartRequest
    \/ ExitLoopAtCap
    \/ RecvContentDelta
    \/ RecvToolCallChunk
    \/ EndStream
    \/ SkipToolCall
    \/ BeginToolCall
    \/ AbortOnArguments
    \/ ToolReturn
    \/ FeedBackResults
    \/ BreakNoToolExecuted
    \/ YieldFinal

(***************************************************************************)
(* AgentDispatcher.process.  An intent is a member of IntentCategory;      *)
(* note_id is None or the id of the selected note.  The three executors    *)
(* are external: execute_turn returns (affected_ids, created_ids,          *)
(* skipped_reason) or raises.                                              *)
(***************************************************************************)
IntentCategory == {"NOTE", "TASK", "EVENT", "UNKNOWN"}

None == "None"
NoteIdInputs == {None, "n1"}

\* what execute_turn may do
ExecutorOutcomes ==
    { [kind |-> "return", value |-> "created"], [kind |-> "return", value |-> "skipped"],
      [kind |-> "raise", value |-> "ClarificationNeeded"], [kind |-> "raise", value |-> "Exception"] }

\* lines 45-88 with the note_id test of line 50 left out: routing by intent alone
RouteByIntentOnly(intent, note_id) ==
    IF intent = "UNKNOWN" THEN "raise"
    ELSE IF intent = "NOTE" THEN "notes"
    ELSE IF intent = "TASK" THEN "task"
    ELSE IF intent = "EVENT" THEN "event"
    ELSE "raise"

\* lines 45-88 with the note_id test of line 50 placed before the UNKNOWN test
RouteContextFirst(intent, note_id) ==
    IF note_id # None THEN "notes"
    ELSE IF intent = "UNKNOWN" THEN "raise"
    ELSE IF intent = "NOTE" THEN "notes"
    ELSE IF intent = "TASK" THEN "task"
    ELSE IF intent = "EVENT" THEN "event"
    ELSE "raise"

\* lines 45-88: the executor process awaits, or "raise" for UnknownIntentError
Route(intent, note_id) ==
    IF intent = "UNKNOWN" THEN "raise"
    ELSE IF note_id # None THEN "notes"
    ELSE IF intent = "NOTE" THEN "notes"
    ELSE IF intent = "TASK" THEN "task"
    ELSE IF intent = "EVENT" THEN "event"
    ELSE "raise"

NoDispResult == [kind |-> "none", value |-> ""]

\* process is called and runs up to its await or its raise
CallProcess ==
    /\ dp_pc \in {"idle", "returned", "raised"}
    /\ dp_calls < MaxProcessCalls
    /\ dp_calls' = dp_calls + 1
    /\ \E intent \in IntentCategory, note_id \in NoteIdInputs :
          /\ dp_intent' = intent
          /\ dp_note_id' = note_id
          /\ LET target == Route(intent, note_id) IN
             IF target = "raise"
             THEN /\ dp_pc' = "raised"
                  /\ dp_result' = [kind |-> "raise", value |-> "UnknownIntentError"]
                  /\ UNCHANGED dp_invocations
             ELSE /\ dp_pc' = target
                  /\ dp_result' = NoDispResult
                  /\ dp_invocations' =
                        Append(dp_invocations,
                               [call |-> dp_calls + 1, executor |-> target, note_id |-> note_id])
    /\ UNCHANGED <<toolVars, reasmVars, parseVars, turnVars, redisVars, storeVars, bridgeVars,
                 persistVars, classVars, execVars, updVars>>

\* the awaited execute_turn returns or raises; process passes either on
ExecutorCompletes ==
    /\ dp_pc \in {"notes", "task", "event"}
    /\ \E outcome \in ExecutorOutcomes :
          /\ dp_result' = outcome
          /\ dp_pc' = IF outcome.kind = "return" THEN "returned" ELSE "raised"
    /\ UNCHANGED <<dp_intent, dp_note_id, dp_invocations, dp_calls>>
    /\ UNCHANGED <<toolVars, reasmVars, parseVars, turnVars, redisVars, storeVars, bridgeVars,
                 persistVars, classVars, execVars, updVars>>

NextDisp == CallProcess \/ ExecutorCompletes

(***************************************************************************)
(* The pending action store (services/pending_actions.py).  The store is a *)
(* redis server: SETEX writes a value that the server drops once its ttl   *)
(* has elapsed on the server's clock.  Time is counted in seconds.         *)
(***************************************************************************)
\* pending_actions.py:12
PENDING_ACTION_TTL == 300

Users == {"1"}
SessionIds == {"S0", "uuid1", "uuid2", "uuid3", None}

\* line 32-33
StoreKey(user_id, session_id) == "pending_action:" \o user_id \o ":" \o session_id

StoreKeys == {StoreKey(u, s) : u \in Users, s \in SessionIds}

\* the empty dict
EmptyDict == [k \in {} |-> ""]

PendingAction(tool, params, awaiting, context) ==
    [tool |-> tool, params |-> params, awaiting |-> awaiting, context |-> context]

NoAction == [tool |-> "", params |-> "", awaiting |-> "", context |-> EmptyDict]

\* get's result: None or the action
NonePending == [is_none |-> TRUE, action |-> NoAction]
SomePending(action) == [is_none |-> FALSE, action |-> action]

\* line 44: json.dumps(asdict(action)), the object's members in field order
DumpAction(action) ==
    << <<"tool", action.tool>>, <<"params", action.params>>,
       <<"awaiting", action.awaiting>>, <<"context", action.context>> >>

\* lines 54-59: json.loads and PendingAction(**data); a value that is no object
\* with exactly the four fields gives None
LoadAction(value) ==
    IF /\ Len(value) = 4
       /\ {value[i][1] : i \in 1..4} = {"tool", "params", "awaiting", "context"}
    THEN LET field(name) == (CHOOSE i \in 1..4 : value[i][1] = name) IN
         SomePending(PendingAction(value[field("tool")][2], value[field("params")][2],
                                   value[field("awaiting")][2], value[field("context")][2]))
    ELSE NonePending

NoEntry == [present |-> FALSE, value |-> <<>>, expire_at |-> 0]

\* an entry dropped already at its expiry time
ExpiredAtDeadline(entry, t) == t >= entry.expire_at

\* the server no longer serves an entry whose expiry time has passed
Expired(entry, t) == t > entry.expire_at

\* line 45: client.setex(key, ttl, value) at server time t
RedisSetex(db, key, ttl, value, t) ==
    [db EXCEPT ![key] = [present |-> TRUE, value |-> value, expire_at |-> t + ttl]]

\* line 51: client.get(key) at server time t; <<>> stands for None
RedisGet(db, key, t) ==
    IF db[key].present /\ ~Expired(db[key], t) THEN db[key].value ELSE <<>>

\* line 64: client.delete(key)
RedisDelete(db, key) == [db EXCEPT ![key] = NoEntry]

\* lines 35-46
StoreSetOp(db, user_id, session_id, action, ttl, t) ==
    RedisSetex(db, StoreKey(user_id, session_id), ttl, DumpAction(action), t)

\* lines 48-59
StoreGetOp(db, user_id, session_id, t) ==
    LET value == RedisGet(db, StoreKey(user_id, session_id), t) IN
    IF value = <<>> THEN NonePending ELSE LoadAction(value)

\* lines 61-65
StoreDeleteOp(db, user_id, session_id) == RedisDelete(db, StoreKey(user_id, session_id))

(***************************************************************************)
(* SpecStore: single calls of set, get and delete while the clock runs.    *)
(***************************************************************************)
ActionInputs ==
    { PendingAction("create_note", "p1", "clarification", EmptyDict),
      PendingAction("create_task", "p2", "clarification", EmptyDict) }

\* the ttl argument of set: left out (the default applies) or given
TtlInputs == { [given |-> FALSE, ttl |-> 0], [given |-> TRUE, ttl |-> 1] }

\* the sessions the single calls use
StoreSessions == {"S0", "uuid1"}

\* the instants at which the store is called: the first seconds, and the seconds
\* around the default ttl
ObservedTimes == (0..MaxEarly) \cup ((PENDING_ACTION_TTL - 1)..(PENDING_ACTION_TTL + MaxLate))

NoGet == [key |-> "", user_id |-> "", session_id |-> "", result |-> NonePending]
NeverSet == [op |-> "none", at |-> 0, ttl |-> 0, action |-> NoAction]

StoreSet ==
    /\ \E u \in Users, sid \in StoreSessions, action \in ActionInputs, ttl_arg \in TtlInputs :
          LET ttl == IF ttl_arg.given THEN ttl_arg.ttl ELSE PENDING_ACTION_TTL IN
          /\ redis_db' = StoreSetOp(redis_db, u, sid, action, ttl, now)
          /\ ps_last' = [ps_last EXCEPT ![StoreKey(u, sid)] =
                            [op |-> "set", at |-> now, ttl |-> ttl, action |-> action]]
    /\ ps_get' = NoGet
    /\ UNCHANGED now
    /\ UNCHANGED <<toolVars, reasmVars, parseVars, turnVars, dispVars, persistVars, classVars, execVars, updVars, bridgeVars>>

StoreGet ==
    /\ \E u \in Users, sid \in StoreSessions :
          ps_get' = [key |-> StoreKey(u, sid), user_id |-> u, session_id |-> sid,
                     result |-> StoreGetOp(redis_db, u, sid, now)]
    /\ UNCHANGED <<redis_db, now, ps_last>>
    /\ UNCHANGED <<toolVars, reasmVars, parseVars, turnVars, dispVars, persistVars, classVars, execVars, updVars, bridgeVars>>

StoreDelete ==
    /\ \E u \in Users, sid \in StoreSessions :
          /\ redis_db[StoreKey(u, sid)].present
          /\ redis_db' = StoreDeleteOp(redis_db, u, sid)
          /\ ps_last' = [ps_last EXCEPT ![StoreKey(u, sid)] =
                            [op |-> "delete", at |-> now, ttl |-> 0, action |-> NoAction]]
    /\ ps_get' = NoGet
    /\ UNCHANGED now
    /\ UNCHANGED <<toolVars, reasmVars, parseVars, turnVars, dispVars, persistVars, classVars, execVars, updVars, bridgeVars>>

ClockAdvances ==
    /\ \E t \in ObservedTimes :
          /\ t > now
          /\ now' = t
    /\ ps_get' = NoGet
    /\ UNCHANGED <<redis_db, ps_last>>
    /\ UNCHANGED <<toolVars, reasmVars, parseVars, turnVars, dispVars, persistVars, classVars, execVars, updVars, bridgeVars>>

NextStore == StoreSet \/ StoreGet \/ StoreDelete \/ ClockAdvances

(***************************************************************************)
(* The agent entry points: the streaming endpoint with its event bridge    *)
(* (routers/agent.py: agent_process_stream, _stream_generator, run_agent), *)
(* the plain endpoint (agent_process) and the WebSocket resume             *)
(* (routers/websocket.py: handle_agent_message).                           *)
(*                                                                         *)
(* A request slot holds one request at a time.  For a streaming request    *)
(* pc is the position of the background task run_agent ("get", "delete",   *)
(* "classify", "executor", "set": the await it is suspended at; "ended")   *)
(* and gen the state of the generator ("reading", "closed", "raised").     *)
(* The classifier and the three executors are external: the classifier     *)
(* returns a category or raises, an executor emits its progress through    *)
(* on_event and returns after its done event, or raises.                   *)
(***************************************************************************)
Slots == 1..MaxSlots

Uuid(n) == "uuid" \o ToString(n)

\* agent.py:62-66; the labels are Russian words, written here in Latin letters
INTENT_LABELS == [i \in {"NOTE", "TASK", "EVENT"} |->
                    CASE i = "NOTE" -> "Zametka" [] i = "TASK" -> "Zadacha" [] i = "EVENT" -> "Sobytie"]

\* dict.get(key, default)
GetOr(dict, key, default) == IF key \in DOMAIN dict THEN dict[key] ELSE default

\* {**d1, **d2}
Merge(d1, d2) == [k \in (DOMAIN d1) \cup (DOMAIN d2) |-> IF k \in DOMAIN d2 THEN d2[k] ELSE d1[k]]

NoExc == [type |-> "", msg |-> "", question |-> "", tool |-> "", params |-> "", context |-> EmptyDict]
Exc(type, msg) == [NoExc EXCEPT !.type = type, !.msg = msg]

\* request_clarification.py:9-17
ClarificationNeeded(question, tool, params, context) ==
    [type |-> "ClarificationNeeded", msg |-> question, question |-> question, tool |-> tool,
     params |-> params, context |-> context]

\* IntentCategory[name] of line 77: the member of that name, or KeyError
IntentByName(name) ==
    IF name \in IntentCategory THEN [ok |-> TRUE, intent |-> name, exc |-> NoExc]
    ELSE [ok |-> FALSE, intent |-> "", exc |-> Exc("KeyError", "'" \o name \o "'")]

NoMsg == [is_none |-> TRUE, text |-> ""]
SomeMsg(text) == [is_none |-> FALSE, text |-> text]

\* an item of the bridge queue: on_event and run_agent put (phase, data); by tells
\* who put it
QEvent(phase, data, by) == [phase |-> phase, data |-> data, by |-> by]

\* lines 138-143: the wire event of a queue item
WireEvent(item) ==
    IF item.phase \in {"done", "clarification_request"}
    THEN [event |-> item.phase, phase |-> item.phase, data |-> item.data]
    ELSE [event |-> "status", phase |-> item.phase, data |-> item.data]

NoRequest ==
    [kind |-> "none", serial |-> 0, via |-> "", pc |-> "none", gen |-> "none",
     body_session |-> None, session_id |-> None, current_session_id |-> None,
     user_input |-> "", note_id |-> None, path |-> "none", pending |-> NonePending,
     found_record |-> 0, intent |-> "", exc |-> NoExc, queue |-> <<>>, sent |-> <<>>,
     error_msg |-> NoMsg, task_exc |-> NoExc, classify_calls |-> 0,
     response |-> "", stored |-> FALSE, puts |-> <<>>]

\* the slot is free: no request yet, or its request is over
Over(req) ==
    \/ req.kind = "none"
    \/ req.kind = "sse" /\ req.pc = "ended" /\ req.gen \in {"closed", "raised", "aborted"}
    \/ req.kind \in {"ws", "http"} /\ req.pc = "responded"

\* the workload: MaxSequential requests one after another, and up to MaxRequests
\* when a request arrives while another is in flight
Admitted ==
    /\ started < MaxRequests
    /\ started < MaxSequential \/ \E q \in Slots : ~Over(rq[q])

\* a new request takes the first free slot
SlotFree(r) == Over(rq[r]) /\ \A q \in Slots : q < r => ~Over(rq[q])

\* the session ids a client may send: none, one of its own, one it was given
SessionInputs == {None, "S0"} \cup client_sessions

\* what classify_intent may do
ClassifierOutcomes ==
    { [kind |-> "return", intent |-> i, exc |-> NoExc] : i \in IntentCategory }
    \cup { [kind |-> "raise", intent |-> "", exc |-> Exc("Exception", "llm down")] }

\* what execute_turn may do after its progress events: emit done and return, or raise
BridgeExecutorOutcomes ==
    { [kind |-> "return", exc |-> NoExc],
      [kind |-> "raise", exc |-> ClarificationNeeded("which note?", "create_note", "p1", EmptyDict)],
      [kind |-> "raise", exc |-> ClarificationNeeded("which note?", "create_note", "p1",
                                                     [intent |-> "TASK"])],
      [kind |-> "raise", exc |-> Exc("Exception", "boom")],
      [kind |-> "raise", exc |-> Exc("Exception", "")] }

\* what the redis server may do on SETEX
SetOutcomes == {"ok", "ConnectionError"}

\* line 55: asyncio.Queue() is built without a maxsize; 0 stands for "no bound"
QueueMaxsize == 0

\* asyncio.Queue.full(): never true when maxsize <= 0
QueueFull(queue) == QueueMaxsize > 0 /\ Len(queue) >= QueueMaxsize

\* lines 55-60: queue.put; the queue is never full, so put appends without
\* waiting; puts keeps every item ever put
Put(req, item) == [req EXCEPT !.queue = Append(@, item), !.puts = Append(@, item)]

\* the task is over without an end sentinel
EndTaskSilently(req) == [req EXCEPT !.pc = "ended"]

\* lines 128-129: the finally clause puts the end sentinel and the task is over
EndTask(req) == [Put(req, QEvent("_end", "", "run_agent")) EXCEPT !.pc = "ended"]

\* lines 119-120
OnUnknownIntentError(req) == EndTask(Put(req, QEvent("done", "unknown_intent", "run_agent")))

\* lines 121-127 with the items still queued thrown away
OnExceptionDroppingQueue(req, e) ==
    EndTask([req EXCEPT !.error_msg = SomeMsg(e.msg), !.queue = <<>>])

\* lines 121-127
OnException(req, e) == EndTask([req EXCEPT !.error_msg = SomeMsg(e.msg)])

\* _dispatcher.process up to the executor's first await: the route, and the
\* executor's first progress event
EnterProcess(req, intent, path) ==
    LET target == Route(intent, req.note_id)
        r1 == [req EXCEPT !.intent = intent, !.path = path]
    IN IF target = "raise"
       THEN IF r1.kind = "sse" THEN OnUnknownIntentError(r1)
            ELSE [r1 EXCEPT !.pc = "responded", !.response = "unknown_intent"]
       ELSE IF r1.kind = "sse"
            THEN [Put(r1, QEvent("building_context", "", target)) EXCEPT !.pc = "executor"]
            ELSE [r1 EXCEPT !.pc = "executor"]

ProcessCall(req, intent, path) ==
    [request |-> req.serial, kind |-> req.kind, path |-> path, intent |-> intent,
     note_id |-> req.note_id, target |-> Route(intent, req.note_id),
     record |-> req.found_record, classify_calls |-> req.classify_calls]

NewRequest(kind, via) ==
    [NoRequest EXCEPT !.kind = kind, !.via = via, !.serial = started + 1,
                      !.user_input = "in" \o ToString(started + 1)]

\* agent.py:349-365 and 48-57, 131: the endpoint calls _stream_generator with the
\* body's input and note_id, and without a session id
AgentProcessStream(r) ==
    /\ SlotFree(r)
    /\ Admitted
    /\ \E body_session \in SessionInputs :
          rq' = [rq EXCEPT ![r] =
                   [NewRequest("sse", "endpoint") EXCEPT
                       !.body_session = body_session,
                       !.session_id = None,
                       !.current_session_id = Uuid(uuid_next),
                       !.pc = "get", !.gen = "reading"]]
    /\ uuid_next' = uuid_next + 1
    /\ started' = started + 1
    /\ UNCHANGED <<dispatch_log, record_of, records, client_sessions>>
    /\ UNCHANGED <<toolVars, reasmVars, parseVars, turnVars, dispVars, persistVars, classVars, execVars, updVars, redisVars, storeVars>>

\* agent.py:48-57, 131: _stream_generator called with a session id
CallStreamGenerator(r) ==
    /\ SlotFree(r)
    /\ Admitted
    /\ \E session_id \in SessionInputs \ {None} :
          rq' = [rq EXCEPT ![r] =
                   [NewRequest("sse", "call") EXCEPT
                       !.body_session = session_id,
                       !.session_id = session_id,
                       !.current_session_id = session_id,
                       !.pc = "get", !.gen = "reading"]]
    /\ started' = started + 1
    /\ UNCHANGED <<uuid_next, dispatch_log, record_of, records, client_sessions>>
    /\ UNCHANGED <<toolVars, reasmVars, parseVars, turnVars, dispVars, persistVars, classVars, execVars, updVars, redisVars, storeVars>>

\* line 73 left out: the record as it was read
WithoutResponse(action, user_input) == action

\* line 73: pending.context["clarification_response"] = user_input
WithResponse(action, user_input) ==
    [action EXCEPT !.context = Merge(@, [clarification_response |-> user_input])]

\* lines 71-73 and 87: get returns
RunGet(r) ==
    /\ rq[r].kind = "sse"
    /\ rq[r].pc = "get"
    /\ LET req == rq[r]
           pending == StoreGetOp(redis_db, "1", req.current_session_id, now)
       IN rq' = [rq EXCEPT ![r] =
                   IF ~pending.is_none
                   THEN [req EXCEPT
                            !.pending = SomePending(WithResponse(pending.action, req.user_input)),
                            !.found_record = record_of[StoreKey("1", req.current_session_id)],
                            !.pc = "delete"]
                   ELSE [Put(req, QEvent("classifying_intent", "", "run_agent")) EXCEPT
                            !.pc = "classify"]]
    /\ UNCHANGED <<started, uuid_next, dispatch_log, record_of, records, client_sessions>>
    /\ UNCHANGED <<toolVars, reasmVars, parseVars, turnVars, dispVars, persistVars, classVars, execVars, updVars, redisVars, storeVars>>

\* lines 74-83: delete returns, the resuming event, the intent is read back and
\* process is called
RunDelete(r) ==
    /\ rq[r].kind = "sse"
    /\ rq[r].pc = "delete"
    /\ LET req == Put(rq[r], QEvent("resuming", "", "run_agent"))
           read == IntentByName(GetOr(req.pending.action.context, "intent", "NOTE"))
       IN /\ redis_db' = StoreDeleteOp(redis_db, "1", req.current_session_id)
          /\ IF read.ok
             THEN /\ rq' = [rq EXCEPT ![r] = EnterProcess(req, read.intent, "resume")]
                  /\ dispatch_log' = Append(dispatch_log, ProcessCall(req, read.intent, "resume"))
             ELSE /\ rq' = [rq EXCEPT ![r] = OnException([req EXCEPT !.path = "resume"], read.exc)]
                  /\ UNCHANGED dispatch_log
    /\ UNCHANGED <<now, started, uuid_next, record_of, records, client_sessions>>
    /\ UNCHANGED <<toolVars, reasmVars, parseVars, turnVars, dispVars, persistVars, classVars, execVars, updVars, storeVars>>

\* lines 88-100: classify_intent returns or raises, with one of the given outcomes
RunClassifyOn(r, outcomes) ==
    /\ rq[r].kind = "sse"
    /\ rq[r].pc = "classify"
    /\ \E outcome \in outcomes :
          LET req == [rq[r] EXCEPT !.classify_calls = @ + 1, !.path = "fresh"] IN
          IF outcome.kind = "raise"
          THEN /\ rq' = [rq EXCEPT ![r] = OnException(req, outcome.exc)]
               /\ UNCHANGED dispatch_log
          ELSE IF outcome.intent = "UNKNOWN"
          THEN /\ rq' = [rq EXCEPT ![r] =
                           EndTask(Put([req EXCEPT !.intent = "UNKNOWN"],
                                       QEvent("done", "unknown_intent", "run_agent")))]
               /\ UNCHANGED dispatch_log
          ELSE LET r1 == Put(req, QEvent("intent_detected", INTENT_LABELS[outcome.intent],
                                         "run_agent"))
               IN /\ rq' = [rq EXCEPT ![r] = EnterProcess(r1, outcome.intent, "fresh")]
                  /\ dispatch_log' = Append(dispatch_log, ProcessCall(r1, outcome.intent, "fresh"))
    /\ UNCHANGED <<started, uuid_next, record_of, records, client_sessions>>
    /\ UNCHANGED <<toolVars, reasmVars, parseVars, turnVars, dispVars, persistVars, classVars, execVars, updVars, redisVars, storeVars>>

RunClassify(r) == RunClassifyOn(r, ClassifierOutcomes)

\* the classifier's outcomes among requests in flight together
RaceClassifierOutcomes == {o \in ClassifierOutcomes : o.intent # "EVENT"}

RaceClassify(r) == RunClassifyOn(r, RaceClassifierOutcomes)

\* the executor process awaits
ExecutorOf(req) == Route(req.intent, req.note_id)

\* lines 76-85 and 93-118: the awaited execute_turn emits done and returns, or raises
RunExecutor(r) ==
    /\ rq[r].kind = "sse"
    /\ rq[r].pc = "executor"
    /\ \E outcome \in BridgeExecutorOutcomes :
          LET req == rq[r] IN
          rq' = [rq EXCEPT ![r] =
                   IF outcome.kind = "return"
                   THEN LET r1 == Put(req, QEvent("done", "result", ExecutorOf(req))) IN
                        IF req.path = "resume"
                        THEN EndTask(Put(r1, QEvent("done", "result", "run_agent")))
                        ELSE EndTask(r1)
                   ELSE IF outcome.exc.type = "ClarificationNeeded"
                   THEN [req EXCEPT !.exc = outcome.exc, !.pc = "set"]
                   ELSE OnException(req, outcome.exc)]
    /\ UNCHANGED <<started, uuid_next, dispatch_log, record_of, records, client_sessions>>
    /\ UNCHANGED <<toolVars, reasmVars, parseVars, turnVars, dispVars, persistVars, classVars, execVars, updVars, redisVars, storeVars>>

\* lines 105-110 with the signal's tool and params left out
SuspendedWithoutSignal(req, e) ==
    PendingAction("", "", "clarification",
                  Merge([original_input |-> req.user_input,
                         intent |-> GetOr(INTENT_LABELS, "NOTE", "NOTE")],
                        e.context))

\* lines 105-110: the record stored on a clarification
SuspendedAction(req, e) ==
    PendingAction(e.tool, e.params, "clarification",
                  Merge([original_input |-> req.user_input,
                         intent |-> GetOr(INTENT_LABELS, "NOTE", "NOTE")],
                        e.context))

\* lines 101-118: pending_actions.set returns and the clarification_request is put,
\* or set raises inside the handler
RunSet(r) ==
    /\ rq[r].kind = "sse"
    /\ rq[r].pc = "set"
    /\ \E outcome \in SetOutcomes :
          LET req == rq[r]
              key == StoreKey("1", req.current_session_id)
          IN
          IF outcome = "ok"
          THEN /\ redis_db' = StoreSetOp(redis_db, "1", req.current_session_id,
                                         SuspendedAction(req, req.exc), PENDING_ACTION_TTL, now)
               /\ records' = Append(records, [request |-> req.serial, classified |-> req.intent,
                                               at |-> now,
                                               session_id |-> req.current_session_id,
                                               tool |-> req.exc.tool, params |-> req.exc.params,
                                               stored_intent |->
                                                   SuspendedAction(req, req.exc).context["intent"]])
               /\ record_of' = [record_of EXCEPT ![key] = Len(records) + 1]
               /\ rq' = [rq EXCEPT ![r] =
                           EndTask(Put([req EXCEPT !.stored = TRUE],
                                       QEvent("clarification_request", req.current_session_id,
                                              "run_agent")))]
          ELSE /\ rq' = [rq EXCEPT ![r] = EndTask([req EXCEPT !.task_exc = Exc(outcome, "redis")])]
               /\ UNCHANGED <<redis_db, records, record_of>>
    /\ UNCHANGED <<now, started, uuid_next, dispatch_log, client_sessions>>
    /\ UNCHANGED <<toolVars, reasmVars, parseVars, turnVars, dispVars, persistVars, classVars, execVars, updVars, storeVars>>

\* queue.get handing out the newest item
QueueGetNewest(queue) == [item |-> queue[Len(queue)], rest |-> SubSeq(queue, 1, Len(queue) - 1)]

\* line 135: queue.get of asyncio.Queue hands out the oldest item
QueueGet(queue) == [item |-> Head(queue), rest |-> Tail(queue)]

\* line 153: "if error_msg"
Truthy(msg) == ~msg.is_none /\ msg.text # ""

\* lines 133-155: the generator takes the next item off the queue; it yields its
\* wire event, or on the end sentinel awaits the task and yields the error event
Consume(r) ==
    /\ rq[r].kind = "sse"
    /\ rq[r].gen = "reading"
    /\ rq[r].queue # <<>>
    /\ LET req == rq[r]
           item == QueueGet(req.queue).item
           rest == [req EXCEPT !.queue = QueueGet(req.queue).rest]
       IN IF item.phase = "_end"
          THEN /\ rq' = [rq EXCEPT ![r] =
                           IF req.task_exc # NoExc THEN [rest EXCEPT !.gen = "raised"]
                           ELSE IF Truthy(req.error_msg)
                           THEN [rest EXCEPT !.gen = "closed",
                                             !.sent = Append(@, [event |-> "error", phase |-> "error",
                                                                 data |-> req.error_msg.text])]
                           ELSE [rest EXCEPT !.gen = "closed"]]
               /\ UNCHANGED client_sessions
          ELSE /\ rq' = [rq EXCEPT ![r] = [rest EXCEPT !.sent = Append(@, WireEvent(item))]]
               /\ client_sessions' = IF item.phase = "clarification_request"
                                     THEN client_sessions \cup {item.data}
                                     ELSE client_sessions
    /\ UNCHANGED <<started, uuid_next, dispatch_log, record_of, records>>
    /\ UNCHANGED <<toolVars, reasmVars, parseVars, turnVars, dispVars, persistVars, classVars, execVars, updVars, redisVars, storeVars>>

\* lines 146-151 without the await: the generator returns right after task.cancel()
AfterCancelNoAwait(req) == [req EXCEPT !.gen = "aborted"]

\* lines 146-151: task.cancel() and await task; a task that is over is awaited at
\* once, a running task gets CancelledError at its suspension point and the
\* generator waits for it
AfterCancel(req) ==
    IF req.pc = "ended" THEN [req EXCEPT !.gen = "aborted"]
    ELSE [req EXCEPT !.gen = "cancelling", !.pc = "cancelling"]

\* lines 133-151: the consumer ends abnormally (the client disconnects, the
\* response task is cancelled) while the generator is suspended in its loop
ConsumerAborts(r) ==
    /\ rq[r].kind = "sse"
    /\ rq[r].gen = "reading"
    /\ rq' = [rq EXCEPT ![r] = AfterCancel(rq[r])]
    /\ UNCHANGED <<started, uuid_next, dispatch_log, record_of, records, client_sessions>>
    /\ UNCHANGED <<toolVars, reasmVars, parseVars, turnVars, dispVars, persistVars, classVars, execVars, updVars, redisVars, storeVars>>

\* lines 68-129: CancelledError is raised at the task's suspension point; no
\* except clause of run_agent catches it, the finally clause puts the end
\* sentinel and the task is over
TaskCancelled(r) ==
    /\ rq[r].kind = "sse"
    /\ rq[r].pc = "cancelling"
    /\ rq' = [rq EXCEPT ![r] = EndTask([rq[r] EXCEPT !.task_exc = Exc("CancelledError", "")])]
    /\ UNCHANGED <<started, uuid_next, dispatch_log, record_of, records, client_sessions>>
    /\ UNCHANGED <<toolVars, reasmVars, parseVars, turnVars, dispVars, persistVars, classVars, execVars, updVars, redisVars, storeVars>>

\* lines 148-151: await task returns or raises CancelledError, which is passed over
AwaitTaskReturns(r) ==
    /\ rq[r].kind = "sse"
    /\ rq[r].gen = "cancelling"
    /\ rq[r].pc = "ended"
    /\ rq' = [rq EXCEPT ![r] = [@ EXCEPT !.gen = "aborted"]]
    /\ UNCHANGED <<started, uuid_next, dispatch_log, record_of, records, client_sessions>>
    /\ UNCHANGED <<toolVars, reasmVars, parseVars, turnVars, dispVars, persistVars, classVars, execVars, updVars, redisVars, storeVars>>

\* websocket.py:147-151 and 67-68, 106-107: a WebSocket message arrives
HandleAgentMessage(r) ==
    /\ SlotFree(r)
    /\ Admitted
    /\ \E action \in {"resume", "other"}, session_id \in SessionInputs :
          rq' = [rq EXCEPT ![r] =
                   [NewRequest("ws", action) EXCEPT
                       !.body_session = IF action = "resume" THEN session_id ELSE None,
                       !.session_id = IF action = "resume" THEN session_id ELSE None,
                       !.current_session_id = IF action = "resume" THEN session_id ELSE None,
                       !.pc = IF action = "resume" THEN "get" ELSE "responded",
                       !.response = IF action = "resume" THEN "" ELSE "error: Unknown action"]]
    /\ started' = started + 1
    /\ UNCHANGED <<uuid_next, dispatch_log, record_of, records, client_sessions>>
    /\ UNCHANGED <<toolVars, reasmVars, parseVars, turnVars, dispVars, persistVars, classVars, execVars, updVars, redisVars, storeVars>>

\* websocket.py:69-79: get returns; the intent of the record
WsGet(r) ==
    /\ rq[r].kind = "ws"
    /\ rq[r].pc = "get"
    /\ LET req == rq[r]
           pending == StoreGetOp(redis_db, "1", req.current_session_id, now)
           intent == GetOr(pending.action.context, "intent", "")
       IN rq' = [rq EXCEPT ![r] =
                   IF pending.is_none
                   THEN [req EXCEPT !.pc = "responded", !.response = "error: No pending action found"]
                   ELSE IF intent = ""
                   THEN [req EXCEPT !.pc = "responded", !.response = "error: Invalid pending action"]
                   ELSE [req EXCEPT !.pending = pending,
                                    !.found_record = record_of[StoreKey("1", req.current_session_id)],
                                    !.path = "resume",
                                    !.pc = "settings"]]
    /\ UNCHANGED <<started, uuid_next, dispatch_log, record_of, records, client_sessions>>
    /\ UNCHANGED <<toolVars, reasmVars, parseVars, turnVars, dispVars, persistVars, classVars, execVars, updVars, redisVars, storeVars>>

\* websocket.py:83: IntentClassifier.INTENT_LABEL_MAP.  The class IntentClassifier
\* (intent_classifier.py:58-128) has no attribute INTENT_LABEL_MAP, so evaluating
\* the argument raises AttributeError before process is called
WsIntentOf(label) == [ok |-> FALSE, intent |-> "", exc |-> Exc("AttributeError", "INTENT_LABEL_MAP")]

\* the resume with the record deleted ahead of the dispatch
WsResumeDeleting(r) ==
    /\ rq[r].kind = "ws"
    /\ rq[r].pc = "settings"
    /\ LET req == rq[r]
           read == WsIntentOf(req.pending.action.context["intent"])
       IN /\ ~read.ok
          /\ redis_db' = StoreDeleteOp(redis_db, "1", req.current_session_id)
          /\ rq' = [rq EXCEPT ![r] = [req EXCEPT !.pc = "responded",
                                                 !.response = "error: " \o read.exc.msg]]
    /\ UNCHANGED <<now, started, uuid_next, dispatch_log, record_of, records, client_sessions>>
    /\ UNCHANGED <<toolVars, reasmVars, parseVars, turnVars, dispVars, persistVars, classVars, execVars, updVars, storeVars>>

\* websocket.py:79-105: the settings are loaded and the dispatch is attempted; the
\* exception is answered with an error
WsResume(r) ==
    /\ rq[r].kind = "ws"
    /\ rq[r].pc = "settings"
    /\ LET req == rq[r]
           read == WsIntentOf(req.pending.action.context["intent"])
       IN /\ ~read.ok
          /\ rq' = [rq EXCEPT ![r] = [req EXCEPT !.pc = "responded",
                                                 !.response = "error: " \o read.exc.msg]]
    /\ UNCHANGED <<started, uuid_next, dispatch_log, record_of, records, client_sessions>>
    /\ UNCHANGED <<toolVars, reasmVars, parseVars, turnVars, dispVars, persistVars, classVars, execVars, updVars, redisVars, storeVars>>

\* agent.py:310-317: a request on the plain endpoint
AgentProcess(r) ==
    /\ SlotFree(r)
    /\ Admitted
    /\ \E note_id \in NoteIdInputs :
          rq' = [rq EXCEPT ![r] = [NewRequest("http", "endpoint") EXCEPT
                                      !.note_id = note_id, !.pc = "classify"]]
    /\ started' = started + 1
    /\ UNCHANGED <<uuid_next, dispatch_log, record_of, records, client_sessions>>
    /\ UNCHANGED <<toolVars, reasmVars, parseVars, turnVars, dispVars, persistVars, classVars, execVars, updVars, redisVars, storeVars>>

\* agent.py:318-333: classify_intent returns or raises; process is called
HttpClassify(r) ==
    /\ rq[r].kind = "http"
    /\ rq[r].pc = "classify"
    /\ \E outcome \in ClassifierOutcomes :
          LET req == [rq[r] EXCEPT !.classify_calls = @ + 1, !.path = "fresh"] IN
          IF outcome.kind = "raise"
          THEN /\ rq' = [rq EXCEPT ![r] = [req EXCEPT !.pc = "responded", !.response = "500"]]
               /\ UNCHANGED dispatch_log
          ELSE IF outcome.intent = "UNKNOWN"
          THEN /\ rq' = [rq EXCEPT ![r] = [req EXCEPT !.intent = "UNKNOWN", !.pc = "responded",
                                                      !.response = "unknown_intent"]]
               /\ UNCHANGED dispatch_log
          ELSE /\ rq' = [rq EXCEPT ![r] = EnterProcess(req, outcome.intent, "fresh")]
               /\ dispatch_log' = Append(dispatch_log, ProcessCall(req, outcome.intent, "fresh"))
    /\ UNCHANGED <<started, uuid_next, record_of, records, client_sessions>>
    /\ UNCHANGED <<toolVars, reasmVars, parseVars, turnVars, dispVars, persistVars, classVars, execVars, updVars, redisVars, storeVars>>

\* agent.py:327-346: execute_turn returns, or raises past the endpoint
HttpExecutor(r) ==
    /\ rq[r].kind = "http"
    /\ rq[r].pc = "executor"
    /\ \E outcome \in BridgeExecutorOutcomes :
          rq' = [rq EXCEPT ![r] = [@ EXCEPT !.pc = "responded",
                                            !.response = IF outcome.kind = "return"
                                                         THEN "result" ELSE "500"]]
    /\ UNCHANGED <<started, uuid_next, dispatch_log, record_of, records, client_sessions>>
    /\ UNCHANGED <<toolVars, reasmVars, parseVars, turnVars, dispVars, persistVars, classVars, execVars, updVars, redisVars, storeVars>>

\* the ttl of every record elapses
TtlElapses ==
    /\ now = 0
    /\ now' = PENDING_ACTION_TTL + 1
    /\ UNCHANGED <<redis_db, storeVars, bridgeVars>>
    /\ UNCHANGED <<toolVars, reasmVars, parseVars, turnVars, dispVars, persistVars, classVars, execVars, updVars>>

\* the steps of the request in slot r
RequestStep(r) ==
    \/ AgentProcessStream(r)
    \/ CallStreamGenerator(r)
    \/ RunGet(r)
    \/ RunDelete(r)
    \/ RunClassify(r)
    \/ RunExecutor(r)
    \/ RunSet(r)
    \/ Consume(r)
    \/ ConsumerAborts(r)
    \/ TaskCancelled(r)
    \/ AwaitTaskReturns(r)
    \/ HandleAgentMessage(r)
    \/ WsGet(r)
    \/ WsResume(r)
    \/ AgentProcess(r)
    \/ HttpClassify(r)
    \/ HttpExecutor(r)

\* the phases the request has put so far, sent or still queued, in order
Emitted(req) ==
    [i \in 1..(Len(req.sent) + Len(req.queue)) |->
        IF i <= Len(req.sent) THEN [phase |-> req.sent[i].phase, data |-> req.sent[i].data]
        ELSE [phase |-> req.queue[i - Len(req.sent)].phase,
              data |-> req.queue[i - Len(req.sent)].data]]

\* the request has put an event of that phase and data
HasEmitted(req, phase, data) ==
    \E i \in DOMAIN Emitted(req) : Emitted(req)[i].phase = phase /\ Emitted(req)[i].data = data

\* the request has put an event of that phase
HasPhase(req, phase) == \E i \in DOMAIN Emitted(req) : Emitted(req)[i].phase = phase

\* requests served one after another
NextBridge ==
    \/ RequestStep(1)
    \/ TtlElapses

\* the steps of a streaming or WebSocket request in slot r
StreamStep(r) ==
    \/ CallStreamGenerator(r)
    \/ RunGet(r)
    \/ RunDelete(r)
    \/ RaceClassify(r)
    \/ RunExecutor(r)
    \/ RunSet(r)
    \/ Consume(r)
    \/ HandleAgentMessage(r)
    \/ WsGet(r)
    \/ WsResume(r)

\* requests of one user in flight together on the event loop
NextRace == \E r \in Slots : StreamStep(r)

(***************************************************************************)
(* NotesExecutor.execute_turn and the stores its tools write.              *)
(* The note rows live in the SQL session: db.add and db.flush put them in  *)
(* the open transaction, db.commit makes them visible, and a session that  *)
(* is closed without commit loses them.  The content of a note is a file   *)
(* of the workspace and a document of the search index; both are written   *)
(* by the tools themselves.                                                *)
(***************************************************************************)
NoteIds == 1..MaxNotes

NoFile == [exists |-> FALSE, content |-> <<>>]
File(content) == [exists |-> TRUE, content |-> content]

\* workspace.py:21-25: get_content, "" when there is no file
GetContent(files, note_id) == IF files[note_id].exists THEN files[note_id].content ELSE <<>>

\* workspace.py:28-31: set_content writes the file at once
SetContent(files, note_id, content) == [files EXCEPT ![note_id] = File(content)]

\* search.py:64-80: index_note writes the document at once
IndexNote(docs, note_id, content) == [docs EXCEPT ![note_id] = File(content)]

\* the note ids in use: rows, rows of the open transaction, files
UsedIds == {row.id : row \in db_rows \cup db_pending} \cup {n \in NoteIds : ws_files[n].exists}

\* what another request or process can see
Visible == [rows |-> db_rows, files |-> ws_files, docs |-> search_docs]

\* the tool calls a response may carry
ToolCallInputs ==
    UNION { [1..n -> {"create_note", "append_to_note", "bogus"}] : n \in 0..MaxToolCalls }

\* a session closed without commit: the open transaction is rolled back
SessionRollback == {}

\* notes_executor.py:60-113: execute_turn is called and awaits the completion
ExecuteTurn ==
    /\ nx_pc \in {"idle", "done", "cancelled", "failed"}
    /\ nx_runs < MaxRuns
    /\ nx_pc' = "llm"
    /\ nx_runs' = nx_runs + 1
    /\ nx_before' = Visible
    /\ nx_calls' = <<>>
    /\ UNCHANGED <<db_pending, db_rows, ws_files, search_docs>>
    /\ UNCHANGED <<toolVars, reasmVars, parseVars, turnVars, dispVars, redisVars, storeVars,
                   bridgeVars, classVars, execVars, updVars>>

\* lines 103-123: the completion returns; without tool calls the run is done
LlmReturns ==
    /\ nx_pc = "llm"
    /\ \E calls \in ToolCallInputs :
          /\ nx_calls' = calls
          /\ nx_pc' = IF calls = <<>> THEN "done" ELSE "tools"
    /\ UNCHANGED <<nx_runs, nx_before, db_pending, db_rows, ws_files, search_docs>>
    /\ UNCHANGED <<toolVars, reasmVars, parseVars, turnVars, dispVars, redisVars, storeVars,
                   bridgeVars, classVars, execVars, updVars>>

\* lines 103-113: the completion raises
LlmRaises ==
    /\ nx_pc = "llm"
    /\ nx_pc' = "failed"
    /\ db_pending' = SessionRollback
    /\ UNCHANGED <<nx_calls, nx_runs, nx_before, db_rows, ws_files, search_docs>>
    /\ UNCHANGED <<toolVars, reasmVars, parseVars, turnVars, dispVars, redisVars, storeVars,
                   bridgeVars, classVars, execVars, updVars>>

\* notes_tool_def.py:162-177: CreateNoteTool.call adds and flushes the row, then
\* writes the file and the index
CreateNote ==
    LET free == NoteIds \ UsedIds IN
    IF free = {} THEN UNCHANGED <<db_pending, ws_files, search_docs>>
    ELSE LET id == CHOOSE n \in free : \A m \in free : n <= m
             content == <<"Created", "text">>
         IN /\ db_pending' = db_pending \cup {[id |-> id, op |-> "insert"]}
            /\ ws_files' = SetContent(ws_files, id, content)
            /\ search_docs' = IndexNote(search_docs, id, content)

\* notes_tool_def.py:182-207: AppendToNoteTool.call on the lowest note the session
\* can see; "Error: note not found" when there is none
AppendToNote ==
    LET seen == {row.id : row \in db_rows \cup db_pending} IN
    IF seen = {} THEN UNCHANGED <<db_pending, ws_files, search_docs>>
    ELSE LET id == CHOOSE n \in seen : \A m \in seen : n <= m
             content == GetContent(ws_files, id) \o <<"---", "text">>
         IN /\ db_pending' = db_pending \cup {[id |-> id, op |-> "update"]}
            /\ ws_files' = SetContent(ws_files, id, content)
            /\ search_docs' = IndexNote(search_docs, id, content)

\* notes_executor.py:125-178: the next tool call of the response; a name outside
\* TOOLS is skipped
ToolCall ==
    /\ nx_pc = "tools"
    /\ nx_calls # <<>>
    /\ CASE Head(nx_calls) = "create_note" -> CreateNote
         [] Head(nx_calls) = "append_to_note" -> AppendToNote
         [] OTHER -> UNCHANGED <<db_pending, ws_files, search_docs>>
    /\ nx_calls' = Tail(nx_calls)
    /\ nx_pc' = IF Tail(nx_calls) = <<>> THEN "saving" ELSE "tools"
    /\ UNCHANGED <<nx_runs, nx_before, db_rows>>
    /\ UNCHANGED <<toolVars, reasmVars, parseVars, turnVars, dispVars, redisVars, storeVars,
                   bridgeVars, classVars, execVars, updVars>>

\* the rows after the transaction is committed
Committed(rows, pending) == rows \cup {[id |-> row.id, op |-> "insert"] : row \in pending}

\* lines 180-183: db.commit() returns, done is emitted
Commit ==
    /\ nx_pc = "saving"
    /\ db_rows' = Committed(db_rows, db_pending)
    /\ db_pending' = {}
    /\ nx_pc' = "done"
    /\ UNCHANGED <<nx_calls, nx_runs, nx_before, ws_files, search_docs>>
    /\ UNCHANGED <<toolVars, reasmVars, parseVars, turnVars, dispVars, redisVars, storeVars,
                   bridgeVars, classVars, execVars, updVars>>

\* line 181: db.commit() raises
CommitFails ==
    /\ nx_pc = "saving"
    /\ nx_pc' = "failed"
    /\ db_pending' = SessionRollback
    /\ UNCHANGED <<nx_calls, nx_runs, nx_before, db_rows, ws_files, search_docs>>
    /\ UNCHANGED <<toolVars, reasmVars, parseVars, turnVars, dispVars, redisVars, storeVars,
                   bridgeVars, classVars, execVars, updVars>>

\* the run is cancelled at one of its awaits before the commit (lines 102-181)
RunCancelled ==
    /\ nx_pc \in {"llm", "tools", "saving"}
    /\ nx_pc' = "cancelled"
    /\ db_pending' = SessionRollback
    /\ UNCHANGED <<nx_calls, nx_runs, nx_before, db_rows, ws_files, search_docs>>
    /\ UNCHANGED <<toolVars, reasmVars, parseVars, turnVars, dispVars, redisVars, storeVars,
                   bridgeVars, classVars, execVars, updVars>>

NextPersist ==
    \/ ExecuteTurn
    \/ LlmReturns
    \/ LlmRaises
    \/ ToolCall
    \/ Commit
    \/ CommitFails
    \/ RunCancelled

(***************************************************************************)
(* PendingActionsStore.update_context (pending_actions.py:67-76): a get    *)
(* and a set, each one await on the redis client, so that other calls of   *)
(* the store and the server's clock run between the two.                   *)
(***************************************************************************)
ContextInputs == { [intent |-> "TASK"], [selected |-> "n1"] }

\* lines 73-74: get is awaited; None ends the call, an action is kept
UpdateContextGet ==
    /\ uc_pc \in {"idle", "done"}
    /\ uc_calls < MaxUpdates
    /\ \E sid \in StoreSessions, new_context \in ContextInputs :
          LET action == StoreGetOp(redis_db, "1", sid, now) IN
          /\ uc_session' = sid
          /\ uc_context' = new_context
          /\ uc_read' = action
          /\ uc_pc' = IF action.is_none THEN "done" ELSE "read"
    /\ uc_calls' = uc_calls + 1
    /\ UNCHANGED <<redisVars, storeVars>>
    /\ UNCHANGED <<toolVars, reasmVars, parseVars, turnVars, dispVars, persistVars, classVars, execVars, bridgeVars>>

\* lines 75-76: context.update(new_context) and set with the default ttl
UpdateContextSet ==
    /\ uc_pc = "read"
    /\ LET action == [uc_read.action EXCEPT !.context = Merge(@, uc_context)] IN
       /\ redis_db' = StoreSetOp(redis_db, "1", uc_session, action, PENDING_ACTION_TTL, now)
       /\ ps_last' = [ps_last EXCEPT ![StoreKey("1", uc_session)] =
                         [op |-> "set", at |-> now, ttl |-> PENDING_ACTION_TTL, action |-> action]]
    /\ ps_get' = NoGet
    /\ uc_pc' = "done"
    /\ UNCHANGED <<now, uc_session, uc_read, uc_context, uc_calls>>
    /\ UNCHANGED <<toolVars, reasmVars, parseVars, turnVars, dispVars, persistVars, classVars, execVars, bridgeVars>>

NextUpdate ==
    \/ StoreSet
    \/ StoreDelete
    \/ ClockAdvances
    \/ UpdateContextGet
    \/ UpdateContextSet

(***************************************************************************)
(* execute_turn of the three specialized executors: one completion, then   *)
(* the for loop over the tool calls of the response, the commit and done.  *)
(* A tool call is its name and its arguments text.  Awaiting _execute_tool *)
(* returns a text, which for request_note_selection may list candidates,   *)
(* or raises one of the programming errors of base_executor.py:113-139.    *)
(***************************************************************************)
Executors == {"notes", "task", "event"}

\* the tools of every executor, whichever executor asks
NotesToolsForAll(kind) ==
    {"create_note", "append_to_note", "patch_note", "request_note_selection",
     "update_user_profile"}

\* notes_executor.py:29-35, task_executor.py:21-24, event_executor.py:21-24: TOOLS
ExecutorTools(kind) ==
    CASE kind = "notes" -> {"create_note", "append_to_note", "patch_note",
                            "request_note_selection", "update_user_profile"}
      [] kind = "task"  -> {"create_task", "update_user_profile"}
      [] kind = "event" -> {"create_note_with_event", "update_user_profile"}

\* notes_executor.py:129-135, task_executor.py:107-113, event_executor.py:109-115:
\* the call passes the name test and json.loads(args_str)
ExecExecutable(kind, call) ==
    call.name \in ExecutorTools(kind) /\ JsonLoads(call.arguments).ok

ExecCallInputs ==
    { [name |-> n, arguments |-> a] :
         n \in {"create_note", "append_to_note", "patch_note", "request_note_selection",
                "create_task", "create_note_with_event", "bogus"},
         a \in { <<"{", "}">>, <<"{", "eq">> } }

ExecResponses == UNION { [1..n -> ExecCallInputs] : n \in 0..MaxExecCalls }

Invocation(pos, name) == [op |-> "tool", pos |-> pos, name |-> name]
CommitDone == [op |-> "commit", pos |-> 0, name |-> ""]

otherThanExec == <<toolVars, reasmVars, parseVars, turnVars, dispVars, redisVars, storeVars,
                   bridgeVars, persistVars, classVars, updVars>>

\* notes_executor.py:61-102 (task 45-80, event 47-82): the context is built and the
\* completion requested
ExecTurnCall ==
    /\ ex_pc \in {"idle", "returned", "raised"}
    /\ ex_runs < MaxExecRuns
    /\ \E kind \in Executors, note_id \in NoteIdInputs :
          /\ ex_kind' = kind
          /\ ex_note_id' = note_id
    /\ ex_calls' = <<>>
    /\ ex_pos' = 1
    /\ ex_events' = <<"building_context", "calling_llm">>
    /\ ex_log' = <<>>
    /\ ex_runs' = ex_runs + 1
    /\ ex_pc' = "llm"
    /\ UNCHANGED otherThanExec

\* notes_executor.py:103-123 (task 81-101, event 83-103): the completion returns;
\* without tool calls done is emitted and the turn returns
ExecLlmReturns ==
    /\ ex_pc = "llm"
    /\ \E calls \in ExecResponses :
          /\ ex_calls' = calls
          /\ IF calls = <<>>
             THEN ex_events' = Append(ex_events, "done") /\ ex_pc' = "returned"
             ELSE ex_events' = ex_events /\ ex_pc' = "loop"
    /\ UNCHANGED <<ex_kind, ex_note_id, ex_pos, ex_log, ex_runs>>
    /\ UNCHANGED otherThanExec

\* notes_executor.py:103-113: the completion raises
ExecLlmRaises ==
    /\ ex_pc = "llm"
    /\ ex_pc' = "raised"
    /\ UNCHANGED <<ex_kind, ex_note_id, ex_calls, ex_pos, ex_events, ex_log, ex_runs>>
    /\ UNCHANGED otherThanExec

\* notes_executor.py:129-135 (task 107-113, event 109-115): continue
ExecSkipCall ==
    /\ ex_pc = "loop"
    /\ ex_pos <= Len(ex_calls)
    /\ ~ExecExecutable(ex_kind, ex_calls[ex_pos])
    /\ ex_pos' = ex_pos + 1
    /\ UNCHANGED <<ex_pc, ex_kind, ex_note_id, ex_calls, ex_events, ex_log, ex_runs>>
    /\ UNCHANGED otherThanExec

\* notes_executor.py:137-178 (task 115-126, event 117-128): executing_tool is
\* emitted and _execute_tool awaited
ExecBeginTool ==
    /\ ex_pc = "loop"
    /\ ex_pos <= Len(ex_calls)
    /\ ExecExecutable(ex_kind, ex_calls[ex_pos])
    /\ ex_events' = Append(ex_events, "executing_tool")
    /\ ex_log' = Append(ex_log, Invocation(ex_pos, ex_calls[ex_pos].name))
    /\ ex_pc' = "tool"
    /\ UNCHANGED <<ex_kind, ex_note_id, ex_calls, ex_pos, ex_runs>>
    /\ UNCHANGED otherThanExec

\* notes_executor.py:139-166: the Notes executor returns at once, without commit,
\* when request_note_selection listed candidates and no note was selected
SelectionReturns(kind, note_id, call, has_candidates) ==
    /\ kind = "notes"
    /\ call.name = "request_note_selection"
    /\ note_id = None
    /\ has_candidates

\* _execute_tool returns its text; the loop goes on, or the selection is returned
ExecToolReturns ==
    /\ ex_pc = "tool"
    /\ \E has_candidates \in BOOLEAN :
          IF SelectionReturns(ex_kind, ex_note_id, ex_calls[ex_pos], has_candidates)
          THEN /\ ex_events' = Append(ex_events, "done")
               /\ ex_pc' = "returned"
               /\ ex_pos' = ex_pos
          ELSE /\ ex_events' = ex_events
               /\ ex_pc' = "loop"
               /\ ex_pos' = ex_pos + 1
    /\ UNCHANGED <<ex_kind, ex_note_id, ex_calls, ex_log, ex_runs>>
    /\ UNCHANGED otherThanExec

\* _execute_tool raises (base_executor.py:115, 139); nothing in execute_turn catches
ExecToolRaises ==
    /\ ex_pc = "tool"
    /\ ex_pc' = "raised"
    /\ UNCHANGED <<ex_kind, ex_note_id, ex_calls, ex_pos, ex_events, ex_log, ex_runs>>
    /\ UNCHANGED otherThanExec

\* notes_executor.py:180 (task 128, event 130): the for loop is over, saving is emitted
ExecSaving ==
    /\ ex_pc = "loop"
    /\ ex_pos > Len(ex_calls)
    /\ ex_events' = Append(ex_events, "saving")
    /\ ex_pc' = "saving"
    /\ UNCHANGED <<ex_kind, ex_note_id, ex_calls, ex_pos, ex_log, ex_runs>>
    /\ UNCHANGED otherThanExec

\* notes_executor.py:181-183 (task 129-131, event 131-133): db.commit() returns,
\* done is emitted, the turn returns
ExecCommit ==
    /\ ex_pc = "saving"
    /\ ex_log' = Append(ex_log, CommitDone)
    /\ ex_events' = Append(ex_events, "done")
    /\ ex_pc' = "returned"
    /\ UNCHANGED <<ex_kind, ex_note_id, ex_calls, ex_pos, ex_runs>>
    /\ UNCHANGED otherThanExec

\* db.commit() raises
ExecCommitFails ==
    /\ ex_pc = "saving"
    /\ ex_pc' = "raised"
    /\ UNCHANGED <<ex_kind, ex_note_id, ex_calls, ex_pos, ex_events, ex_log, ex_runs>>
    /\ UNCHANGED otherThanExec

NextExec ==
    \/ ExecTurnCall
    \/ ExecLlmReturns
    \/ ExecLlmRaises
    \/ ExecSkipCall
    \/ ExecBeginTool
    \/ ExecToolReturns
    \/ ExecToolRaises
    \/ ExecSaving
    \/ ExecCommit
    \/ ExecCommitFails

(***************************************************************************)
(* IntentClassifier.classify_intent.                                       *)
(* user_input is a sequence of characters; the completion server either    *)
(* fails or answers with a message carrying tool calls, each a name and an *)
(* arguments text.                                                         *)
(***************************************************************************)
NoLlm == [kind |-> "none", tool_calls |-> <<>>]
NoClassResult == [kind |-> "none", value |-> ""]

ClassReturn(category) == [kind |-> "return", value |-> category]
ClassRaise(exception) == [kind |-> "raise", value |-> exception]

\* llm.py:35-46: the parameters of chat_completion
ChatCompletionParams ==
    {"messages", "tools", "base_url", "model", "api_key", "temperature",
     "frequency_penalty", "top_p", "max_tokens"}

\* intent_classifier.py:86-97: the arguments classify_intent passes
ClassifierCallArgs ==
    {"messages", "tools", "tool_choice", "base_url", "model", "api_key", "temperature",
     "frequency_penalty", "top_p", "max_tokens"}

\* Python's call binding: a keyword the function does not declare is a TypeError
Binds(passed, params) == passed \subseteq params

\* intent_classifier.py:42-45: ClassifyIntentParams.model_validate; FALSE stands
\* for ValidationError
ValidIntentParams(args) ==
    /\ args.type = "dict"
    /\ HasKey(args, "intent")
    /\ DictGet(args, "intent").type = "str"
    /\ DictGet(args, "intent").str \in {"note", "task", "event", "unknown"}

\* intent_classifier.py:32-36: IntentCategory(value)
IntentByValue(value) ==
    CASE value = "note" -> ClassReturn("NOTE")
      [] value = "task" -> ClassReturn("TASK")
      [] value = "event" -> ClassReturn("EVENT")
      [] value = "unknown" -> ClassReturn("UNKNOWN")
      [] OTHER -> ClassRaise("ValueError")

\* intent_classifier.py:101-128: from the response to the category
ClassifyResponse(llm) ==
    IF llm.tool_calls = <<>> THEN ClassReturn("UNKNOWN")
    ELSE LET tc == llm.tool_calls[1]
             args == JsonLoads(tc.arguments)
         IN IF tc.name # "classify_intent" THEN ClassReturn("UNKNOWN")
            ELSE IF ~args.ok THEN ClassReturn("UNKNOWN")
            ELSE IF ~ValidIntentParams(args) THEN ClassRaise("ValidationError")
            ELSE LET made == IntentByValue(DictGet(args, "intent").str)
                 IN IF made.kind = "raise" THEN ClassReturn("UNKNOWN") ELSE made

\* intent_classifier.py:86-128 and llm.py:35-83: the chat_completion call and
\* what follows it
ClassifyAfterSettings(llm) ==
    IF ~Binds(ClassifierCallArgs, ChatCompletionParams) THEN ClassRaise("TypeError")
    ELSE IF llm.kind = "raise" THEN ClassRaise("HTTPStatusError")
    ELSE ClassifyResponse(llm)

UserInputs == { <<>>, <<" ">>, <<"a">>, <<" ", "a", "\n">> }

LlmAnswers ==
    { [kind |-> "raise", tool_calls |-> <<>>],
      [kind |-> "message", tool_calls |-> <<>>] }
    \cup { [kind |-> "message", tool_calls |-> << [name |-> n, arguments |-> a] >>] :
              n \in {"classify_intent", "create_note"},
              a \in { <<"{", "i:note", "}">>, <<"{", "i:task", "}">>, <<"{", "i:event", "}">>,
                      <<"{", "i:unknown", "}">>, <<"{", "i:banana", "}">>, <<"{", "}">>,
                      <<"{", "i:note">>, <<"7">> } }

\* intent_classifier.py:61-71: classify_intent is called; an empty or blank input
\* is UNKNOWN at once, otherwise the settings are awaited
ClassifyIntent ==
    /\ cl_pc \in {"idle", "returned", "raised"}
    /\ cl_calls < MaxClassifyCalls
    /\ \E user_input \in UserInputs, llm \in LlmAnswers :
          /\ cl_input' = user_input
          /\ cl_llm' = llm
          /\ IF user_input = <<>> \/ Strip(user_input) = <<>>
             THEN cl_pc' = "returned" /\ cl_result' = ClassReturn("UNKNOWN")
             ELSE cl_pc' = "awaiting" /\ cl_result' = NoClassResult
    /\ cl_calls' = cl_calls + 1
    /\ UNCHANGED <<toolVars, reasmVars, parseVars, turnVars, dispVars, redisVars, storeVars,
                   bridgeVars, persistVars, execVars, updVars>>

\* intent_classifier.py:73-128: the settings arrive, chat_completion is called
ClassifyCompletes ==
    /\ cl_pc = "awaiting"
    /\ cl_result' = ClassifyAfterSettings(cl_llm)
    /\ cl_pc' = IF ClassifyAfterSettings(cl_llm).kind = "raise" THEN "raised" ELSE "returned"
    /\ UNCHANGED <<cl_input, cl_llm, cl_calls>>
    /\ UNCHANGED <<toolVars, reasmVars, parseVars, turnVars, dispVars, redisVars, storeVars,
                   bridgeVars, persistVars, execVars, updVars>>

NextClassify == ClassifyIntent \/ ClassifyCompletes

(***************************************************************************)
(* Specifications.                                                         *)
(***************************************************************************)
\* no call of any component has been made yet
Init ==
    /\ et_pc = "idle"
    /\ et_call = NoCall
    /\ et_result = NoResult
    /\ rs_pc = "idle"
    /\ rs_call = NoLogicalCall
    /\ rs_frags = <<>>
    /\ rs_acc = <<>>
    /\ fp_pc = "build"
    /\ fp_content = <<>>
    /\ fp_pieces = 0
    /\ fp_result = NoneCall
    /\ pc = "idle"
    /\ max_iterations = 0
    /\ iteration = 0
    /\ full_content = <<>>
    /\ tool_calls_saved = NoneSaved
    /\ tool_calls_by_id = <<>>
    /\ turn_content = <<>>
    /\ tc_pos = 1
    /\ executed_any = FALSE
    /\ assistant_tool_calls = <<>>
    /\ tool_results = <<>>
    /\ messages = <<>>
    /\ events = <<>>
    /\ requests = 0
    /\ chunks_left = MaxChunks
    /\ first_seen = <<>>
    /\ exec_log = <<>>
    /\ exit_reason = "none"
    /\ dp_pc = "idle"
    /\ dp_intent = "NOTE"
    /\ dp_note_id = None
    /\ dp_invocations = <<>>
    /\ dp_result = NoDispResult
    /\ dp_calls = 0
    /\ redis_db = [k \in StoreKeys |-> NoEntry]
    /\ now = 0
    /\ ps_get = NoGet
    /\ ps_last = [k \in StoreKeys |-> NeverSet]
    /\ rq = [r \in Slots |-> NoRequest]
    /\ started = 0
    /\ uuid_next = 1
    /\ dispatch_log = <<>>
    /\ record_of = [k \in StoreKeys |-> 0]
    /\ records = <<>>
    /\ client_sessions = {}
    /\ nx_pc = "idle"
    /\ nx_calls = <<>>
    /\ nx_runs = 0
    /\ nx_before = [rows |-> {}, files |-> [n \in NoteIds |-> NoFile], docs |-> [n \in NoteIds |-> NoFile]]
    /\ db_pending = {}
    /\ db_rows = {}
    /\ ws_files = [n \in NoteIds |-> NoFile]
    /\ search_docs = [n \in NoteIds |-> NoFile]
    /\ cl_pc = "idle"
    /\ cl_input = <<>>
    /\ cl_llm = NoLlm
    /\ cl_result = NoClassResult
    /\ cl_calls = 0
    /\ ex_pc = "idle"
    /\ ex_kind = "notes"
    /\ ex_note_id = None
    /\ ex_calls = <<>>
    /\ ex_pos = 1
    /\ ex_events = <<>>
    /\ ex_log = <<>>
    /\ ex_runs = 0
    /\ uc_pc = "idle"
    /\ uc_session = "S0"
    /\ uc_read = NonePending
    /\ uc_context = EmptyDict
    /\ uc_calls = 0

SpecTool == Init /\ [][NextTool]_vars

SpecReasm == Init /\ [][NextReasm]_vars

SpecParse == Init /\ [][NextParse]_vars

SpecTurn == Init /\ [][NextTurn]_vars

SpecDisp == Init /\ [][NextDisp]_vars

SpecStore == Init /\ [][NextStore]_vars

SpecBridge == Init /\ [][NextBridge]_vars

SpecRace == Init /\ [][NextRace]_vars

SpecPersist == Init /\ [][NextPersist]_vars

SpecClassify == Init /\ [][NextClassify]_vars

SpecExec == Init /\ [][NextExec]_vars

SpecUpdate == Init /\ [][NextUpdate]_vars

\* the event loop resumes a generator that can take a step
SpecTurnFair == SpecTurn /\ WF_vars(NextTurn)

(***************************************************************************)
(* Claims about _execute_tool (SpecTool).                                  *)
(***************************************************************************)
UnknownTool(c) == c.tool_name \notin DOMAIN TestRegistry
MalformedArgs(c) == Strip(c.raw_args) # <<>> /\ ~JsonLoads(c.raw_args).ok
InvalidArgs(c) ==
    /\ ~UnknownTool(c)
    /\ ~MalformedArgs(c)
    /\ ~ValidateArgs(TestRegistry[c.tool_name],
                     IF Strip(c.raw_args) # <<>> THEN JsonLoads(c.raw_args) ELSE JsonDict(<<>>))

\* C5: _execute_tool never raises for a tool-level failure.  An unknown tool id,
\* malformed JSON arguments and arguments failing validation each return their
\* error text without the implementation being called; a timeout and any exception
\* of a called implementation each return an error text.
C5_ToolFailuresReturnText ==
    et_pc = "done" =>
        /\ UnknownTool(et_call) =>
              et_result = Returned(ErrNotFound(et_call.tool_name), FALSE)
        /\ (~UnknownTool(et_call) /\ MalformedArgs(et_call)) =>
              et_result = Returned(ErrBadJson(et_call.tool_name), FALSE)
        /\ InvalidArgs(et_call) =>
              et_result = Returned(ErrValidation(et_call.tool_name), FALSE)
        /\ (et_result.called /\ et_call.impl.kind \in {"timeout", "TypeError", "Exception"}) =>
              /\ et_result.outcome = "return"
              /\ et_result.text \in { ErrTimeout(et_call.tool_name),
                                      ErrArgument(et_call.tool_name),
                                      ErrExecuting(et_call.tool_name) }

\* C5 witness: a called implementation raised and the call returned the error text
C5_Witness ==
    /\ et_pc = "done"
    /\ et_call.impl.kind = "Exception"
    /\ et_result = Returned(ErrExecuting(et_call.tool_name), TRUE)

\* C8: a result longer than the cap C is returned as its first floor(0.7 C)
\* characters, the marker stating its length, and its last floor(0.2 C) characters;
\* a result no longer than the cap is returned unchanged.
C8_TruncationHeadMarkerTail ==
    ( /\ et_pc = "done"
      /\ et_result.outcome = "return"
      /\ et_result.called
      /\ et_call.impl.kind = "return" ) =>
        LET r == et_call.impl.value
            L == Len(r)
            C == et_call.cap
            h == (7 * C) \div 10
            t == (2 * C) \div 10
        IN IF L > C
           THEN et_result.text = SubSeq(r, 1, h) \o <<TrimMarker(L)>> \o SubSeq(r, L - t + 1, L)
           ELSE et_result.text = r

\* C27: the two programming errors are not turned into a text.  Called with
\* valid arguments, a registered tool whose timeout is <= 0 makes _execute_tool
\* raise before the implementation is called, and an implementation that returns
\* a value that is no text makes it raise a type error.
C27_ProgrammingErrorsRaise ==
    ( /\ et_pc = "done"
      /\ ~UnknownTool(et_call) /\ ~MalformedArgs(et_call) /\ ~InvalidArgs(et_call) ) =>
        LET tool_def == TestRegistry[et_call.tool_name] IN
        /\ tool_def.timeout_seconds <= 0 => et_result = Raised("ValueError", FALSE)
        /\ ( /\ tool_def.timeout_seconds > 0
             /\ et_call.impl.kind = "return"
             /\ ~et_call.impl.is_str ) => et_result = Raised("TypeError", TRUE)

\* C27 witness: the tool registered with timeout 0 was called with valid arguments
\* and behind an implementation that would have returned a text
C27_Witness ==
    /\ et_pc = "done"
    /\ et_call.tool_name = "zero_timeout"
    /\ et_call.raw_args = <<"{", "}">>
    /\ et_call.impl.kind = "return" /\ et_call.impl.is_str
    /\ et_result = Raised("ValueError", FALSE)

\* C18: a ClarificationNeeded raised while a tool runs inside _execute_tool is not
\* turned into an "Error executing ..." text: it leaves _execute_tool as the
\* exception it is, on its way to the dispatcher's caller.
C18_ClarificationPropagates ==
    (et_pc = "done" /\ et_result.called /\ et_call.impl.kind = "ClarificationNeeded") =>
        et_result = Raised("ClarificationNeeded", TRUE)

(***************************************************************************)
(* Claims about the reassembly (SpecReasm).                                *)
(***************************************************************************)
\* C6: chunking-invariance.  Once every fragment of a split is delivered, the
\* accumulator equals the one built from the same call delivered as one fragment.
C6_ChunkingInvariance ==
    (rs_pc = "streaming" /\ rs_frags = <<>>) =>
        rs_acc = OnToolCallChunk(<<>>, rs_call)

(***************************************************************************)
(* Claims about the fallback call detector (SpecParse).                    *)
(***************************************************************************)
\* the text parsed directly: json.loads(text) is an object whose name is a
\* string naming a registered tool
DirectCall(text) ==
    LET obj == JsonLoads(text) IN
    /\ obj.ok
    /\ obj.type = "dict"
    /\ HasKey(obj, "name")
    /\ DictGet(obj, "name").type = "str"
    /\ DictGet(obj, "name").str \in DOMAIN TOOLS

\* the arguments of a detected call denote the arguments member of obj
SameArguments(obj, raw_args) ==
    IF ~HasKey(obj, "arguments") THEN raw_args = <<"{", "}">>
    ELSE LET a == DictGet(obj, "arguments") IN
         CASE a.type = "dict" -> JsonLoads(raw_args) = JsonDict(a.text)
           [] a.type = "str"  -> raw_args = a.text
           [] OTHER           -> FALSE

Bare(text) ==
    \A i \in 1..Len(text) :
        /\ text[i] # Fence
        /\ \A k \in 1..Len(Tags) : text[i] \notin {OpenTag(Tags[k]), CloseTag(Tags[k])}

\* what is left of the text after trimming and unwrapping a tag pair and a fence
Remainder(text) == UnwrapFence(UnwrapTags(Strip(text)))

\* the remainder is, with nothing around it, a JSON object naming a registered tool
RemainderIsCall(text) ==
    LET rem == Remainder(text) IN
    /\ rem # <<>>
    /\ Head(rem) = "{"
    /\ rem[Len(rem)] = "}"
    /\ DirectCall(rem)

\* the arguments of a detected call: an object re-serialised, a string as it is,
\* "{}" for anything else
ArgumentsRule(obj, raw_args) ==
    IF ~HasKey(obj, "arguments") THEN raw_args = <<"{", "}">>
    ELSE LET a == DictGet(obj, "arguments") IN
         CASE a.type = "dict" -> raw_args = <<"{">> \o a.text \o <<"}">>
           [] a.type = "str"  -> raw_args = a.text
           [] OTHER           -> raw_args = <<"{", "}">>

SingleObject(text) ==
    /\ text # <<>>
    /\ Head(text) = "{" /\ text[Len(text)] = "}"
    /\ JsonLoads(text).ok /\ JsonLoads(text).type = "dict"

\* the text as a whole is wrapped in a recognised tag pair
WhollyTagged(text) ==
    /\ Len(text) >= 2
    /\ \E tag \in {Tags[i] : i \in 1..Len(Tags)} :
          Head(text) = OpenTag(tag) /\ text[Len(text)] = CloseTag(tag)

\* the text as a whole is a fenced code block
WhollyFenced(text) ==
    /\ Len(text) >= 2
    /\ Head(text) = Fence /\ text[Len(text)] = Fence

Inside(text) == Strip(SubSeq(text, 2, Len(text) - 1))

\* C34: the detector unwraps at most one delimiter layer, a recognised tag pair
\* or a fenced code block and not one after the other, and only when the trimmed
\* text as a whole is wrapped in it; what remains must be a single JSON object,
\* otherwise no call is detected.
C34_OneLayerUnwrapped ==
    (fp_pc = "done" /\ fp_result.found) =>
        LET text == Strip(fp_content) IN
        \/ SingleObject(text)
        \/ WhollyTagged(text) /\ SingleObject(Inside(text))
        \/ WhollyFenced(text) /\ SingleObject(UnwrapFence(text))

(***************************************************************************)
(* Claims about the turn loop (SpecTurn, SpecTurnFair).                    *)
(***************************************************************************)

\* C1: for every max_iterations = N >= 0 and every behaviour of the model, one
\* run of _stream_turn issues at most N chat_completion_stream requests.
C1_RequestsWithinCap == requests <= max_iterations

\* a run that used every request the cap allows, each round executing a tool
C1_Witness ==
    /\ pc = "done"
    /\ exit_reason = "cap"
    /\ max_iterations = 2
    /\ requests = max_iterations

\* C2: every run of _stream_turn whose streams end and whose tool invocations
\* return eventually yields its final result.
C2_RunYieldsFinal == <>(pc = "done")

RoundLog == SelectSeq(exec_log, LAMBDA e : e.round = iteration)

PosIn(seq, x) == CHOOSE i \in 1..Len(seq) : seq[i] = x

\* C3: within a round the tool calls go through _execute_tool one at a time, in
\* the order of the first fragment of each stream index; a call starts only
\* after the previous call has returned.
C3_SequentialInEmissionOrder ==
    /\ \A i \in 1..(Len(exec_log) - 1) : exec_log[i].returned
    /\ (pc = "await") <=> (exec_log # <<>> /\ exec_log[Len(exec_log)].impl = "pending")
    /\ \A i, j \in 1..Len(RoundLog) :
          i < j => /\ RoundLog[i].key \in Range(first_seen)
                   /\ RoundLog[j].key \in Range(first_seen)
                   /\ PosIn(first_seen, RoundLog[i].key) < PosIn(first_seen, RoundLog[j].key)

\* the call of stream index 1 arrived and was executed before the call of index 0
C3_Witness ==
    /\ Len(RoundLog) = 2
    /\ RoundLog[1].key = "idx_1" /\ RoundLog[1].returned
    /\ RoundLog[2].key = "idx_0" /\ RoundLog[2].returned
    /\ first_seen = <<"idx_1", "idx_0">>

\* C28: in the accumulator of a round, the name of a tool call does not change
\* once set: when the entry of a stream index holds a non-empty name, no later
\* fragment of that index alters it.
C28_NameFixedOnceSet ==
    [][ (pc = "stream" /\ pc' = "stream") =>
           \A i \in 1..Len(tool_calls_by_id) :
              tool_calls_by_id[i].name # "" =>
                 /\ i <= Len(tool_calls_by_id')
                 /\ tool_calls_by_id'[i].key = tool_calls_by_id[i].key
                 /\ tool_calls_by_id'[i].name = tool_calls_by_id[i].name ]_vars

\* the calls of the current round that returned from _execute_tool, in the order
\* they were executed
ExecutedCalls == SelectSeq(RoundLog, LAMBDA e : e.returned)

\* C29: a round that executed k >= 1 tool calls ends by appending exactly one
\* assistant message listing those k calls in execution order, followed by k
\* tool messages whose tool_call_id are the listed ids in the same order; a
\* round that executed no call appends nothing; no step modifies or removes a
\* message appended earlier.
C29_RoundAppendsCallsAndResults ==
    [][ pc # "idle" =>
        LET k == Len(ExecutedCalls)
            old == Len(messages)
            added == SubSeq(messages', old + 1, Len(messages'))
        IN
        /\ Len(messages') >= old
        /\ SubSeq(messages', 1, old) = messages
        /\ (pc = "exec" /\ pc' = "loop") <=> (messages' # messages)
        /\ (pc = "exec" /\ pc' = "loop") =>
              /\ k >= 1
              /\ Len(added) = k + 1
              /\ added[1].role = "assistant"
              /\ Len(added[1].tool_calls) = k
              /\ \A i \in 1..k :
                    /\ added[1].tool_calls[i].id = ExecutedCalls[i].id
                    /\ added[1].tool_calls[i].name = ExecutedCalls[i].name
                    /\ added[i + 1].role = "tool"
                    /\ added[i + 1].tool_call_id = ExecutedCalls[i].id
                    /\ added[i + 1].content = ExecutedCalls[i].text
        /\ (pc = "exec" /\ pc' = "final") => (k = 0 /\ messages' = messages) ]_vars

\* C29 witness: a round executed two calls and its three messages were appended
C29_Witness ==
    /\ pc = "loop"
    /\ Len(ExecutedCalls) = 2
    /\ Len(messages) = Len(InitialMessages) + 3
    /\ messages[3].role = "assistant" /\ Len(messages[3].tool_calls) = 2
    /\ messages[4].tool_call_id = ExecutedCalls[1].id
    /\ messages[5].tool_call_id = ExecutedCalls[2].id
    /\ ExecutedCalls[1].id # ExecutedCalls[2].id

\* the round's accumulator holds the call found by the fallback detector
HasFallback == \E i \in 1..Len(tool_calls_by_id) : tool_calls_by_id[i].key = "fallback"

\* C31: the call of the fallback detector enters a round only if the round
\* received no structured tool-call fragment and its text is not blank; when the
\* detector finds a call, it is the only call of the round and goes through the
\* for loop once: one invocation at most, and exactly one when it is executable.
C31_FallbackOnlyWithoutFragments ==
    (iteration >= 1 /\ pc \in {"exec", "await", "loop", "final", "done", "raised"}) =>
       /\ HasFallback <=>
             /\ first_seen = <<>>
             /\ Strip(turn_content) # <<>>
             /\ TryParseTextToolCall(ChatExecutor.tools, turn_content).found
       /\ HasFallback =>
             /\ Len(tool_calls_by_id) = 1
             /\ Len(RoundLog) <= 1
             /\ (pc \in {"loop", "final", "done"} /\ Executable(tool_calls_by_id[1]))
                   => Len(ExecutedCalls) = 1

\* C31 witness: the text of a round was a tool call, and it was executed once
C31_Witness ==
    /\ pc = "loop"
    /\ iteration = 1
    /\ HasFallback
    /\ Len(ExecutedCalls) = 1
    /\ ExecutedCalls[1].key = "fallback"
    /\ ExecutedCalls[1].name = "get_notes_tree"

\* in the chat turn a call that is skipped at lines 123-130 leaves no trace: every
\* invocation, every tool_call and tool_result event and every call listed in a
\* message is of a chat tool, and a round that ends has executed every call that
\* is not skipped
ChatSkippedCallsLeaveNoTrace ==
    /\ \A i \in 1..Len(exec_log) : exec_log[i].name \in DOMAIN TOOLS
    /\ \A i \in 1..Len(events) :
          events[i].type \in {"tool_call", "tool_result"} => events[i].name \in DOMAIN TOOLS
    /\ \A i \in 1..Len(events) :
          events[i].type = "tool_call" => LoadArgs(events[i].text).ok
    /\ \A i \in 1..Len(messages) : \A j \in 1..Len(messages[i].tool_calls) :
          /\ messages[i].tool_calls[j].name \in DOMAIN TOOLS
          /\ LoadArgs(messages[i].tool_calls[j].arguments).ok
    /\ (pc \in {"loop", "final"} /\ iteration >= 1) =>
          \A i \in 1..Len(tool_calls_by_id) :
             LET tc == tool_calls_by_id[i]
                 ran == \E k \in 1..Len(ExecutedCalls) : ExecutedCalls[k].key = tc.key
             IN ran <=> (tc.name \in DOMAIN TOOLS /\ LoadArgs(ArgsStr(tc)).ok)

\* a round skipped the call named bogus and executed the call after it
ChatSkippedWitness ==
    /\ pc = "loop"
    /\ Len(tool_calls_by_id) = 2
    /\ tool_calls_by_id[1].name = "bogus"
    /\ Len(ExecutedCalls) = 1
    /\ ExecutedCalls[1].key = tool_calls_by_id[2].key

\* _execute_tool is awaited outside any try (line 144): a call that raised ends
\* the turn, with no tool_result event, no message and no final result for it
RaisedToolCallAbortsTurn ==
    \A i \in 1..Len(exec_log) :
       exec_log[i].impl = "raised" =>
          /\ pc = "raised"
          /\ i = Len(exec_log)
          /\ events[Len(events)].type = "tool_call"
          /\ events[Len(events)].id = exec_log[i].id

\* a tool of the chat executor returned a value that is no text
RaisedToolCallWitness ==
    /\ pc = "raised"
    /\ exec_log # <<>>
    /\ exec_log[Len(exec_log)].impl = "raised"
    /\ exec_log[Len(exec_log)].text = <<"TypeError">>

ToolFailed(e) == e.returned /\ e.impl = "Exception"

ExecutedInRound(tc) ==
    \E i \in 1..Len(RoundLog) : RoundLog[i].key = tc.key /\ RoundLog[i].returned

\* C30: the phases of a round never overlap.  No arguments are parsed and no
\* tool is invoked before the model stream of the round is exhausted: a step that
\* yields a tool_call event or starts or ends a call of _execute_tool is taken
\* after the stream ended, and a step that receives a chunk is taken while no call
\* of the round has started.  The next model request is issued only when every
\* call of _execute_tool has returned and every executable call of the round
\* was executed.
C30_PhasesDoNotOverlap ==
    [][ /\ (exec_log' # exec_log \/ (events' # events /\ events'[Len(events')].type = "tool_call"))
              => pc \in {"exec", "await"}
        /\ (chunks_left' # chunks_left)
              => (pc = "stream" /\ pc' = "stream" /\ RoundLog = <<>>)
        /\ (pc \in {"exec", "await"}) => (pc' # "stream" /\ chunks_left' = chunks_left)
        /\ requests' # requests =>
              /\ \A i \in 1..Len(exec_log) : exec_log[i].returned
              /\ \A i \in 1..Len(tool_calls_by_id) :
                    Executable(tool_calls_by_id[i]) => ExecutedInRound(tool_calls_by_id[i]) ]_vars

\* C30 witness: the second request of a turn is under way after a round whose
\* two calls were both executed
C30_Witness ==
    /\ pc = "stream"
    /\ requests = 2
    /\ Len(exec_log) = 2
    /\ \A i \in 1..2 : exec_log[i].returned /\ exec_log[i].round = 1

\* C4: when a tool implementation raises an arbitrary exception, the call
\* yields the text "Error executing <tool>", every later call of the round is
\* still executed, and the turn goes on to the next model request.  The turn
\* is left early only by a later call that itself raised out of _execute_tool.
C4_ToolExceptionIsolated ==
    LET failed == \E i \in 1..Len(RoundLog) : ToolFailed(RoundLog[i]) IN
    /\ \A i \in 1..Len(exec_log) :
          ToolFailed(exec_log[i]) => exec_log[i].text = ErrExecuting(exec_log[i].name)
    /\ (failed /\ pc = "raised") => exec_log[Len(exec_log)].impl = "raised"
    /\ (failed /\ pc = "loop") =>
          \A i \in 1..Len(tool_calls_by_id) :
             Executable(tool_calls_by_id[i]) => ExecutedInRound(tool_calls_by_id[i])

RECURSIVE DeltaText(_)
DeltaText(evs) ==
    IF evs = <<>> THEN <<>>
    ELSE DeltaText(SubSeq(evs, 1, Len(evs) - 1))
         \o (IF evs[Len(evs)].type = "content_delta" THEN evs[Len(evs)].text ELSE <<>>)

FinalEvent == events[Len(events)]

\* C9 as stated: leaving the loop at the cap does not raise, the final result
\* carries the text of all rounds, and tool_calls_saved is set to the last
\* round's intents rather than left unset.
C9_SavedSetAtCap ==
    (pc = "done" /\ exit_reason = "cap" /\ iteration >= 1) =>
       /\ FinalEvent.type = "_internal_final"
       /\ FinalEvent.text = DeltaText(events)
       /\ ~FinalEvent.saved.is_none

\* C9 amended: leaving the loop at the cap does not raise and the final result
\* carries the text of all rounds, with tool_calls_saved left None; it is set,
\* to the name and arguments of every intent of the last round, exactly when
\* the loop ends because that round executed no tool.
C9_SavedSetOnlyOnBreak ==
    /\ exit_reason = "cap" => pc \in {"final", "done"}
    /\ pc = "done" =>
          /\ FinalEvent.type = "_internal_final"
          /\ FinalEvent.text = DeltaText(events)
          /\ exit_reason = "cap" => FinalEvent.saved.is_none
          /\ exit_reason = "break" =>
                /\ ~FinalEvent.saved.is_none
                /\ RoundLog = <<>>
                /\ Len(FinalEvent.saved.calls) = Len(tool_calls_by_id)
                /\ \A i \in 1..Len(tool_calls_by_id) :
                      /\ FinalEvent.saved.calls[i].name = tool_calls_by_id[i].name
                      /\ FinalEvent.saved.calls[i].arguments = tool_calls_by_id[i].arguments

\* the cap ended a run whose last round executed one call and skipped another
C9_Witness ==
    /\ pc = "done"
    /\ exit_reason = "cap"
    /\ iteration >= 1
    /\ Len(tool_calls_by_id) = 2
    /\ Len(RoundLog) = 1
    /\ full_content # <<>>
    /\ FinalEvent.saved.is_none

\* the round produced tool calls and every one of them is skipped at lines 123-130
AllCallsSkipped ==
    /\ iteration >= 1
    /\ pc \notin {"idle", "stream"}
    /\ tool_calls_by_id # <<>>
    /\ \A i \in 1..Len(tool_calls_by_id) : ~Executable(tool_calls_by_id[i])

\* C33: a round in which every tool call is skipped is treated as a round without
\* tool call: no tool is invoked, nothing is collected for a message, no further
\* model request is issued, and the turn ends with the final result carrying the
\* accumulated text.
C33_AllSkippedEndsTurn ==
    AllCallsSkipped =>
       /\ pc \in {"exec", "final", "done"}
       /\ RoundLog = <<>>
       /\ requests = iteration
       /\ ~executed_any /\ assistant_tool_calls = <<>> /\ tool_results = <<>>
       /\ pc \in {"final", "done"} => exit_reason = "break"
       /\ pc = "done" => /\ FinalEvent.type = "_internal_final"
                         /\ FinalEvent.text = full_content
                         /\ FinalEvent.text = DeltaText(events)

\* C33 witness: the only call of the first round was named bogus, the cap allowed
\* another request, and the turn ended after one request with its text
C33_Witness ==
    /\ AllCallsSkipped
    /\ pc = "done"
    /\ max_iterations = 2
    /\ requests = 1
    /\ full_content # <<>>
    /\ tool_calls_by_id[1].name = "bogus"

FinalEvents == {i \in 1..Len(events) : events[i].type = "_internal_final"}

\* the turn ended because a tool raised out of _execute_tool
ToolRaised == pc = "raised" /\ exec_log # <<>> /\ exec_log[Len(exec_log)].impl = "raised"

\* C38: _stream_turn yields _internal_final exactly once, as its last event, and
\* its content is the concatenation of the content_delta events of the run in
\* emission order.  A turn ends without it only when a tool raised out of
\* _execute_tool.
C38_FinalOnceWithAllText ==
    /\ Cardinality(FinalEvents) <= 1
    /\ \A i \in FinalEvents : i = Len(events) /\ events[i].text = DeltaText(events)
    /\ (pc \in {"done", "raised"} /\ ~ToolRaised) => Cardinality(FinalEvents) = 1

\* C39: every tool_call event is directly followed by the tool_result event of
\* the same id, every tool_result event directly follows its tool_call event, and
\* the pairs are the invocations of _execute_tool that returned.  A tool_call
\* event is the last event only while its invocation is under way or after it
\* raised.
C39_CallResultPairs ==
    LET calls == {i \in 1..Len(events) : events[i].type = "tool_call"}
        results == {i \in 1..Len(events) : events[i].type = "tool_result"}
    IN
    /\ \A i \in results : (i - 1) \in calls /\ events[i - 1].id = events[i].id
    /\ \A i \in calls :
          IF i < Len(events)
          THEN (i + 1) \in results /\ events[i + 1].id = events[i].id
          ELSE pc = "await" \/ ToolRaised
    /\ Cardinality(calls) = Len(exec_log)
    /\ Cardinality(results) = Len(SelectSeq(exec_log, LAMBDA e : e.returned))

(***************************************************************************)
(* Claims about the dispatcher (SpecDisp).                                 *)
(***************************************************************************)
InvocationsOfCall == SelectSeq(dp_invocations, LAMBDA v : v.call = dp_calls)

OnlyNotesOnce ==
    /\ Len(InvocationsOfCall) = 1
    /\ InvocationsOfCall[1].executor = "notes"
    /\ InvocationsOfCall[1].note_id = dp_note_id

\* C10 as stated: a call of process with a note_id invokes the Notes executor
\* exactly once and neither other executor, whatever the intent.
C10_NoteContextAlwaysNotes ==
    (dp_calls >= 1 /\ dp_note_id # None) => OnlyNotesOnce

\* C10 amended: a call of process with a note_id and an intent other than UNKNOWN
\* invokes the Notes executor exactly once, with that note_id, and neither other
\* executor; with intent UNKNOWN it raises UnknownIntentError and invokes none.
C10_NoteContextNotesUnlessUnknown ==
    (dp_calls >= 1 /\ dp_note_id # None) =>
       IF dp_intent = "UNKNOWN"
       THEN /\ InvocationsOfCall = <<>>
            /\ dp_pc = "raised"
            /\ dp_result = [kind |-> "raise", value |-> "UnknownIntentError"]
       ELSE OnlyNotesOnce

\* a TASK request on an open note went to the Notes executor, which returned
C10_Witness ==
    /\ dp_note_id # None
    /\ dp_intent = "TASK"
    /\ dp_pc = "returned"
    /\ OnlyNotesOnce

(***************************************************************************)
(* Claims about the pending action store (SpecStore).                      *)
(***************************************************************************)

\* C12: after set(user, session, action, ttl = T) with no later set on that key,
\* get returns the action at every time up to T after the set and None at every
\* time strictly after T; the default T is 300 seconds.
C12_ExpiryByClock ==
    /\ PENDING_ACTION_TTL = 300
    /\ ps_get # NoGet =>
          LET last == ps_last[ps_get.key] IN
          /\ last.op = "set" =>
                /\ now - last.at <= last.ttl => ps_get.result = SomePending(last.action)
                /\ now - last.at > last.ttl => ps_get.result = NonePending
          /\ last.op # "set" => ps_get.result = NonePending

\* a get exactly 300 seconds after a set with the default ttl returned the action
C12_Witness ==
    /\ ps_get # NoGet
    /\ ps_last[ps_get.key].op = "set"
    /\ ps_last[ps_get.key].ttl = PENDING_ACTION_TTL
    /\ now - ps_last[ps_get.key].at = PENDING_ACTION_TTL
    /\ ~ps_get.result.is_none
(***************************************************************************)
(* Claims on the entry points (SpecBridge).                                *)
(***************************************************************************)

\* C11: no executor consumes UNKNOWN.  process(UNKNOWN) raises
\* UnknownIntentError whatever the note_id and no process call with UNKNOWN
\* reaches an executor; a request whose classification is UNKNOWN never waits
\* on an executor, the streaming entry point answers it with the done event
\* carrying unknown_intent and the plain entry point with the unknown_intent
\* response.
C11_UnknownNeverExecuted ==
    /\ \A n \in NoteIdInputs : Route("UNKNOWN", n) = "raise"
    /\ \A i \in DOMAIN dispatch_log :
          dispatch_log[i].intent = "UNKNOWN" => dispatch_log[i].target = "raise"
    /\ \A r \in Slots :
          rq[r].intent = "UNKNOWN" =>
             /\ rq[r].pc # "executor"
             /\ ~HasPhase(rq[r], "building_context")
             /\ rq[r].kind = "sse" => HasEmitted(rq[r], "done", "unknown_intent")
             /\ rq[r].kind = "http" => rq[r].response = "unknown_intent"

\* a stream whose classification was UNKNOWN was read to its end and carried the
\* unknown_intent rejection
C11_Witness ==
    \E r \in Slots :
       /\ rq[r].kind = "sse" /\ rq[r].intent = "UNKNOWN" /\ rq[r].gen = "closed"
       /\ \E i \in DOMAIN rq[r].sent :
             rq[r].sent[i].event = "done" /\ rq[r].sent[i].data = "unknown_intent"

\* C14: a streaming request that found a live PendingAction holds the record
\* with its new input under the key clarification_response and has made no
\* classify_intent call, up to and including its process call; a streaming
\* request that found none has called the classifier exactly once by the time
\* it calls process or ends (unless it was cancelled before), and never more
\* than once.
C14_ResumeSkipsClassifier ==
    /\ \A r \in Slots :
          rq[r].kind = "sse" =>
             /\ ~rq[r].pending.is_none =>
                   /\ rq[r].classify_calls = 0
                   /\ "clarification_response" \in DOMAIN rq[r].pending.action.context
                   /\ rq[r].pending.action.context["clarification_response"] = rq[r].user_input
             /\ (rq[r].pending.is_none /\ rq[r].pc \notin {"get", "classify", "cancelling"}
                 /\ rq[r].task_exc.type # "CancelledError") =>
                   rq[r].classify_calls = 1
             /\ rq[r].classify_calls <= 1
    /\ \A i \in DOMAIN dispatch_log :
          dispatch_log[i].kind = "sse" =>
             dispatch_log[i].classify_calls = (IF dispatch_log[i].path = "resume" THEN 0 ELSE 1)

\* a resumed request called process without classifying, after the request that
\* stored the record had classified once
C14_Witness ==
    /\ \E i \in DOMAIN dispatch_log :
          dispatch_log[i].path = "resume" /\ dispatch_log[i].classify_calls = 0
    /\ \E i \in DOMAIN dispatch_log :
          dispatch_log[i].path = "fresh" /\ dispatch_log[i].kind = "sse"
    /\ \E r \in Slots : rq[r].kind = "sse" /\ rq[r].path = "resume" /\ rq[r].pc = "ended"

\* C15: the intent survives the suspension.  The intent recorded in a stored
\* PendingAction reads back (IntentCategory[...]) to the category the storing
\* request was classified as, every resumed request reaches the dispatcher, and
\* the dispatcher is then called with the category classified originally.
C15_ResumeKeepsIntent ==
    /\ \A s \in DOMAIN records :
          /\ IntentByName(records[s].stored_intent).ok
          /\ IntentByName(records[s].stored_intent).intent = records[s].classified
    /\ \A i \in DOMAIN dispatch_log :
          (dispatch_log[i].path = "resume" /\ dispatch_log[i].record # 0) =>
             dispatch_log[i].intent = records[dispatch_log[i].record].classified
    /\ \A r \in Slots :
          (rq[r].kind = "sse" /\ rq[r].path = "resume" /\ rq[r].pc # "delete") =>
             \E i \in DOMAIN dispatch_log : dispatch_log[i].request = rq[r].serial

\* C16: conversation continuity.  A request on the streaming endpoint whose body
\* carries the session id S of an earlier clarification_request looks the pending
\* action up under (user, S), and while the record under (user, S) is live it
\* does not take the path of a request that found none.
C16_SessionContinues ==
    \A r \in Slots :
       (rq[r].kind = "sse" /\ rq[r].via = "endpoint" /\ rq[r].body_session \in client_sessions) =>
          /\ rq[r].current_session_id = rq[r].body_session
          /\ ~(rq[r].pc = "classify"
               /\ ~StoreGetOp(redis_db, "1", rq[r].body_session, now).is_none)

\* C17: a clarification suspends the request.  Whenever a stream has put the
\* clarification_request event, a PendingAction with the signal's tool and
\* params had been set under (user, the stream's session) with the ttl
\* PENDING_ACTION_TTL; the event carries that session id; and the stream has no
\* done event.
C17_ClarificationStored ==
    \A r \in Slots :
       (rq[r].kind = "sse" /\ HasPhase(rq[r], "clarification_request")) =>
          LET req == rq[r]
              entry == redis_db[StoreKey("1", req.current_session_id)]
          IN /\ HasEmitted(req, "clarification_request", req.current_session_id)
             /\ \A i \in DOMAIN Emitted(req) :
                   Emitted(req)[i].phase = "clarification_request" =>
                      Emitted(req)[i].data = req.current_session_id
             /\ req.stored
             /\ \E s \in DOMAIN records :
                   /\ records[s].request = req.serial
                   /\ records[s].session_id = req.current_session_id
                   /\ records[s].tool = req.exc.tool
                   /\ records[s].params = req.exc.params
                   /\ entry.present
                   /\ entry.expire_at = records[s].at + PENDING_ACTION_TTL
                   /\ LoadAction(entry.value).action.tool = req.exc.tool
                   /\ LoadAction(entry.value).action.params = req.exc.params
                   /\ LoadAction(entry.value).action.awaiting = "clarification"
             /\ ~HasPhase(req, "done")

\* a stream was read to its end and its last event was the clarification request
C17_Witness ==
    \E r \in Slots :
       /\ rq[r].kind = "sse" /\ rq[r].gen = "closed" /\ rq[r].stored
       /\ rq[r].exc.type = "ClarificationNeeded"
       /\ Len(rq[r].sent) > 0
       /\ rq[r].sent[Len(rq[r].sent)].event = "clarification_request"
       /\ rq[r].sent[Len(rq[r].sent)].data = rq[r].current_session_id

\* C19: every stream ends with a terminal event.  A stream that was read to its
\* end, whatever run_agent met on the way, contains a done, a
\* clarification_request or an error event.
C19_TerminalEvent ==
    \A r \in Slots :
       (rq[r].kind = "sse" /\ rq[r].gen \in {"closed", "raised"}) =>
          \E i \in DOMAIN rq[r].sent :
             rq[r].sent[i].event \in {"done", "clarification_request", "error"}

\* C20: the stream ends after done or error.  A stream carries at most one done
\* or error event and no event follows it, on the fresh and on the resume path.
C20_NothingAfterDone ==
    \A r \in Slots :
       rq[r].kind = "sse" =>
          \A i \in DOMAIN rq[r].sent :
             rq[r].sent[i].event \in {"done", "error"} => i = Len(rq[r].sent)

\* C21: FIFO delivery.  The wire events one stream has yielded from its queue
\* are, in order, the wire events of the first items the task has put, the end
\* sentinel left out; once the stream was read to its end they are the wire
\* events of all the items put: none lost, duplicated or reordered.
C21_FifoDelivery ==
    \A r \in Slots :
       rq[r].kind = "sse" =>
          LET req == rq[r]
              items == SelectSeq(req.puts, LAMBDA it : it.phase # "_end")
              yielded == SelectSeq(req.sent, LAMBDA ev : ev.event # "error")
          IN /\ Len(yielded) <= Len(items)
             /\ \A i \in DOMAIN yielded : yielded[i] = WireEvent(items[i])
             /\ req.gen \in {"closed", "raised"} => Len(yielded) = Len(items)

\* a stream of at least three queued events was read to its end
C21_Witness ==
    \E r \in Slots :
       /\ rq[r].kind = "sse" /\ rq[r].gen = "closed"
       /\ Len(SelectSeq(rq[r].puts, LAMBDA it : it.phase # "_end")) >= 3
       /\ Len(rq[r].sent) >= 3

\* C22: the failure comes after the progress.  When a stream carries the error
\* event, the task had failed with that message, every item the task had put
\* before was yielded ahead of it, the stream is closed and the error event is
\* its last event; a closed stream whose task failed with a non-empty message
\* carries the error event.
C22_ErrorAfterProgress ==
    \A r \in Slots :
       rq[r].kind = "sse" =>
          LET req == rq[r]
              items == SelectSeq(req.puts, LAMBDA it : it.phase # "_end")
          IN /\ \A i \in DOMAIN req.sent :
                   req.sent[i].event = "error" =>
                      /\ i = Len(req.sent)
                      /\ i = Len(items) + 1
                      /\ \A j \in 1..Len(items) : req.sent[j] = WireEvent(items[j])
                      /\ req.gen = "closed"
                      /\ ~req.error_msg.is_none
                      /\ req.sent[i].data = req.error_msg.text
             /\ (req.gen = "closed" /\ Truthy(req.error_msg)) =>
                   (Len(req.sent) > 0 /\ req.sent[Len(req.sent)].event = "error")

\* a stream ended with the error event after progress events queued before the
\* failure
C22_Witness ==
    \E r \in Slots :
       /\ rq[r].kind = "sse" /\ rq[r].gen = "closed"
       /\ Len(rq[r].sent) >= 3
       /\ rq[r].sent[Len(rq[r].sent)].event = "error"
       /\ rq[r].sent[1].event = "status"

\* C23: no task outlives the bridge.  Once the generator of a stream is over,
\* normally, by an exception or after its consumer ended abnormally, the task of
\* the request is over too; after an abnormal end the task was cancelled or had
\* finished before.
C23_TaskOverWhenBridgeReturns ==
    \A r \in Slots :
       (rq[r].kind = "sse" /\ rq[r].gen \in {"closed", "raised", "aborted"}) =>
          rq[r].pc = "ended"

\* the consumer ended abnormally while the task was running, the task was
\* cancelled and the generator returned after it
C23_Witness ==
    \E r \in Slots :
       /\ rq[r].kind = "sse" /\ rq[r].gen = "aborted" /\ rq[r].pc = "ended"
       /\ rq[r].task_exc.type = "CancelledError"

\* C24: the bridge queue is bounded.  The queue of a stream has a capacity, the
\* number of items waiting in it never exceeds that capacity, and the queue is
\* full (put waits) when it holds that many.
C24_QueueBounded ==
    \A r \in Slots :
       rq[r].kind = "sse" =>
          /\ QueueMaxsize > 0
          /\ Len(rq[r].queue) <= QueueMaxsize
          /\ Len(rq[r].queue) = QueueMaxsize => QueueFull(rq[r].queue)

(***************************************************************************)
(* Claims on the executor's persistence (SpecPersist).                     *)
(***************************************************************************)

\* C25: all-or-nothing persistence.  After a run that was cancelled or failed
\* before its commit, the rows, the workspace files and the search index are
\* what they were when the run started; after a run that is done no row is
\* left in an open transaction.
C25_AllOrNothing ==
    /\ nx_pc \in {"cancelled", "failed"} => Visible = nx_before
    /\ nx_pc = "done" => db_pending = {}

(***************************************************************************)
(* Claims on the intent classifier (SpecClassify).                         *)
(***************************************************************************)

\* C26: classify_intent never raises, and it returns UNKNOWN when the input is
\* empty or blank, when the response has no tool call, when the first call names
\* another tool, when its arguments are no valid JSON, and when the intent value
\* is outside {note, task, event, unknown}.
C26_ClassifierNeverRaises ==
    /\ cl_pc # "raised"
    /\ cl_pc = "returned" =>
          LET calls == cl_llm.tool_calls
              blank == Strip(cl_input) = <<>>
              other == calls # <<>> /\ calls[1].name # "classify_intent"
              args == JsonLoads(calls[1].arguments)
          IN (\/ blank
              \/ calls = <<>>
              \/ other
              \/ ~args.ok
              \/ (args.type = "dict" /\ HasKey(args, "intent")
                  /\ DictGet(args, "intent").str \notin {"note", "task", "event", "unknown"}))
             => cl_result = ClassReturn("UNKNOWN")

(***************************************************************************)
(* Claims on the specialized executors (SpecExec).                         *)
(***************************************************************************)
ToolInvocations == SelectSeq(ex_log, LAMBDA e : e.op = "tool")
Commits == SelectSeq(ex_log, LAMBDA e : e.op = "commit")
PhasesEmitted(phase) == SelectSeq(ex_events, LAMBDA e : e = phase)

C35_CommitOnceBeforeDone ==
    (ex_pc = "returned" /\ ToolInvocations # <<>>) =>
        /\ Len(Commits) = 1
        /\ ex_log[Len(ex_log)].op = "commit"
        /\ ex_events[Len(ex_events)] = "done"
        /\ Len(PhasesEmitted("done")) = 1
        /\ ex_events[Len(ex_events) - 1] = "saving"

\* the end sentinels among the items a task has put
EndSentinels(req) == SelectSeq(req.puts, LAMBDA it : it.phase = "_end")

\* C36: the background task of a stream puts the end sentinel exactly once, as
\* the last item it puts, however it ends (it returns, the intent is unknown, a
\* clarification is asked, an exception is raised, it is cancelled); the
\* sentinel is never put while the task runs; while the generator still reads
\* after the task ended, the sentinel is waiting at the end of the queue, and
\* a generator that left its loop by reading has taken the sentinel.
C36_EndSentinelOnce ==
    \A r \in Slots :
       rq[r].kind = "sse" =>
          LET req == rq[r] IN
          /\ Len(EndSentinels(req)) <= 1
          /\ (req.pc = "ended") <=> (Len(EndSentinels(req)) = 1)
          /\ req.pc = "ended" => req.puts[Len(req.puts)].phase = "_end"
          /\ (req.pc = "ended" /\ req.gen = "reading") =>
                (req.queue # <<>> /\ req.queue[Len(req.queue)].phase = "_end")
          /\ req.gen \in {"closed", "raised"} => (req.pc = "ended" /\ req.queue = <<>>)

\* a task that was cancelled while it ran has put the sentinel after the items
\* it had put before
C36_Witness ==
    \E r \in Slots :
       /\ rq[r].kind = "sse"
       /\ rq[r].task_exc.type = "CancelledError"
       /\ Len(rq[r].puts) >= 2
       /\ rq[r].puts[Len(rq[r].puts)].phase = "_end"
       /\ rq[r].gen = "aborted"

\* C37: update_context is safe against a concurrent delete or expiry.  Its
\* write finds the record it has read still live: it never brings back a
\* record that was deleted, or whose ttl elapsed, between its get and its set.
C37_UpdateNeverRecreates ==
    [][(uc_pc = "read" /\ uc_pc' = "done") =>
          ~StoreGetOp(redis_db, "1", uc_session, now).is_none]_vars

\* the calls of AgentDispatcher.process made for the request of that serial
DispatchesOf(serial) == {i \in DOMAIN dispatch_log : dispatch_log[i].request = serial}

\* C40: the frame of a WebSocket resume.  A step of handle_agent_message with
\* action "resume" changes the store only when it answers "completed" after a
\* dispatch of its own; a resume answered with an error or a clarification
\* after its dispatch was attempted leaves the record as it was, retrievable
\* as long as its ttl has not elapsed; a resume that finds no live record or no
\* recorded intent is answered with an error and has invoked no Dispatcher.
C40_WsResumeFrame ==
    [][\A r \in Slots :
          (rq[r].kind = "ws" /\ rq[r].via = "resume" /\ rq[r].pc \in {"get", "settings"}
              /\ rq'[r] # rq[r]) =>
             LET req == rq[r]
                 key == StoreKey("1", req.current_session_id)
             IN /\ redis_db' # redis_db =>
                      (rq'[r].response = "completed" /\ DispatchesOf(req.serial) # {})
                /\ (req.pc = "settings" /\ rq'[r].pc = "responded"
                       /\ rq'[r].response # "completed") =>
                      /\ redis_db'[key] = redis_db[key]
                      /\ (redis_db[key].present /\ ~Expired(redis_db[key], now')) =>
                            StoreGetOp(redis_db', "1", req.current_session_id, now') = req.pending
                /\ (req.pc = "get" /\ rq'[r].pc = "responded") =>
                      /\ rq'[r].response \in {"error: No pending action found",
                                              "error: Invalid pending action"}
                      /\ StoreGetOp(redis_db, "1", req.current_session_id, now).is_none
                            \/ GetOr(StoreGetOp(redis_db, "1", req.current_session_id,
                                                now).action.context, "intent", "") = ""
                      /\ dispatch_log' = dispatch_log
                      /\ DispatchesOf(req.serial) = {}]_vars

\* a WebSocket resume found a live record with an intent, its dispatch raised,
\* and the record is still retrievable
C40_Witness ==
    \E r \in Slots :
       /\ rq[r].kind = "ws" /\ rq[r].via = "resume"
       /\ rq[r].pc = "responded"
       /\ rq[r].found_record # 0
       /\ rq[r].response = "error: INTENT_LABEL_MAP"
       /\ DispatchesOf(rq[r].serial) = {}
       /\ StoreGetOp(redis_db, "1", rq[r].current_session_id, now) = rq[r].pending

(***************************************************************************)
(* Claims on requests in flight together (SpecRace).                       *)
(***************************************************************************)

\* C13: a stored PendingAction is single-use.  Under any interleaving of the
\* requests of one user, the streaming resume and the WebSocket resume included,
\* at most one call of the dispatcher is made for one stored record.
C13_SingleUse ==
    \A i, j \in DOMAIN dispatch_log :
       (dispatch_log[i].record # 0 /\ dispatch_log[i].record = dispatch_log[j].record) => i = j

(***************************************************************************)
(* Claims on update_context (SpecUpdate).                                  *)
(***************************************************************************)

====
